---- MODULE Spec2Model ----
(***************************************************************************)
(* Model of the octree send thread of the assignment client:               *)
(*   OctreeSendThread::process, ::packetDistributor, ::handlePacketSend    *)
(*   (assignment-client/src/octree/OctreeSendThread.cpp) working on one    *)
(*   OctreeQueryNode (assignment-client/src/octree/OctreeQueryNode.h).     *)
(* The bodies of the OctreeQueryNode methods, OctreePacketData,            *)
(* OctreeSceneStats, OctreeElementBag and the tree encoder are not part of *)
(* the sources at hand; they are modelled from the specification text.     *)
(***************************************************************************)
EXTENDS Integers, Sequences, FiniteSets, TLC

\* ---------------------------------------------------------------- bounds
\* number of elements of the (finite) tree; element 1 is the root
NumElements == 2
\* most bytes one encode call appends to the assembler
MaxEncodeBytes == 2
\* number of inbound query updates a behaviour contains
MaxQueries == 1
\* new cycles start while the sequence number is below this
MaxSequence == 2
\* new cycles start while the duplicate counter is below this
MaxDuplicates == 2
\* the history counts the encode calls of a cycle up to this many
ManyCalls == 2
\* encode calls of one cycle that may write nothing and report DIDNT_FIT
MaxRetries == 1
\* the budget is computed for client rates 0..MaxBudgetPPS packets per second
MaxBudgetPPS == 130
\* ... and for server caps of 0..MaxServerCap packets per interval
MaxServerCap == 16
\* the pacing is computed for cycles that took 0..MaxElapsed microseconds
MaxElapsed == 40

\* ------------------------------------------------- sizes (scaled down)
MAX_PACKET_SIZE == 6
\* packet header plus flags, sequence and timestamp fields
PacketHeaderSize == 1
MAX_OCTREE_PACKET_DATA_SIZE == MAX_PACKET_SIZE - PacketHeaderSize
\* sizeof(OCTREE_PACKET_INTERNAL_SECTION_SIZE)
SectionSizeBytes == 1
COMPRESS_PADDING == 1
MINIMUM_ATTEMPT_MORE_PACKING == SectionSizeBytes + COMPRESS_PADDING + 1
REASONABLE_NUMBER_OF_PACKING_ATTEMPTS == 1
INTERVALS_PER_SECOND == 60
\* length of a packed scene-statistics message
StatsMessageLength == 3
\* a compressed section may come out larger than its input by up to this much
MaxInflate == COMPRESS_PADDING + 1
\* the send interval in microseconds, and the width of int
OCTREE_SEND_INTERVAL_USECS == 3
IntBits == 4
\* line 106
MIN_USEC_TO_SLEEP == 1

\* ------------------------------------------------------------- domains
Elements == 1..NumElements
RootElement == 1
\* children of an element of the tree (a binary heap layout)
Children(e) == {c \in Elements : c \div 2 = e}
Views == {0, 1}
\* EncodeBitstreamParams::reason, the values the distributor distinguishes
StopReasons == {"UNKNOWN", "DIDNT_FIT", "OUT_OF_VIEW"}
\* client-requested packets per second, and the server's per-interval caps
ClientPPS == {20, 120}
ServerCaps == {2}

Min(a, b) == IF a < b THEN a ELSE b
Max(a, b) == IF a > b THEN a ELSE b

\* n copies of byte value v
Chunk(n, v) == [i \in 1..n |-> v]
\* the marker a compressed section starts with: it carries the section size
SectionMark(len) == 100 + len

VARIABLES
    nodeData,       \* the OctreeQueryNode of the client (the session)
    packetData,     \* OctreeSendThread::_packetData (the assembler)
    pc,             \* position of the send thread
    loc,            \* locals of process / packetDistributor
    threadShuttingDown, \* OctreeSendThread::_isShuttingDown
    server,         \* what the send thread reads from OctreeServer
    cyc,            \* history of the current packetDistributor call
    call,           \* history of the latest handlePacketSend call
    wire,           \* history of the datagrams written for the session
    queries,        \* number of inbound query updates so far
    thread,         \* what process() reads of its thread, and its history
    tree,           \* the server's Octree: its lock and the root's stamp
    totals          \* the static counters all send threads add to

vars == <<nodeData, packetData, pc, loc, threadShuttingDown, server, cyc,
          call, wire, queries, thread, tree, totals>>

\* ------------------------------------------------- OctreeQueryNode methods
getPacketLength(n) == MAX_PACKET_SIZE - n.octreePacketAvailableBytes

getCurrentPacketFormatMatches(n) ==
    /\ n.currentPacketIsColor = n.wantColor
    /\ n.currentPacketIsCompressed = n.wantCompression

\* resets the packet to just after its header; keeps a copy of the packet
\* it replaces for duplicate suppression and locks the flags to the wants
resetOctreePacket(n) ==
    IF n.isShuttingDown THEN n
    ELSE [n EXCEPT !.lastOctreePacket = n.octreePacket,
                   !.currentPacketIsColor = n.wantColor,
                   !.currentPacketIsCompressed = n.wantCompression,
                   !.octreePacket = <<>>,
                   !.octreePacketSeq = n.sequenceNumber,
                   !.octreePacketAvailableBytes = MAX_PACKET_SIZE - PacketHeaderSize,
                   !.octreePacketWaiting = FALSE]

\* a variant of writeToPacket that copies the segment without looking at the
\* space left
writeToPacket_Unchecked(n, data) ==
    IF n.isShuttingDown THEN n
    ELSE LET comp == n.currentPacketIsCompressed
             at == IF comp THEN n.octreePacket \o <<SectionMark(Len(data))>>
                   ELSE n.octreePacket
             avail == IF comp THEN n.octreePacketAvailableBytes - SectionSizeBytes
                      ELSE n.octreePacketAvailableBytes
         IN [n EXCEPT !.octreePacket = at \o data,
                      !.octreePacketAvailableBytes = avail - Len(data),
                      !.octreePacketWaiting = TRUE]

\* appends a finalized segment; a compressed packet gets a section size first
writeToPacket(n, data) ==
    IF n.isShuttingDown THEN n
    ELSE LET comp == n.currentPacketIsCompressed
             at == IF comp THEN n.octreePacket \o <<SectionMark(Len(data))>>
                   ELSE n.octreePacket
             avail == IF comp THEN n.octreePacketAvailableBytes - SectionSizeBytes
                      ELSE n.octreePacketAvailableBytes
         IN IF Len(data) <= avail
            THEN [n EXCEPT !.octreePacket = at \o data,
                           !.octreePacketAvailableBytes = avail - Len(data),
                           !.octreePacketWaiting = TRUE]
            ELSE [n EXCEPT !.octreePacket = at,
                           !.octreePacketAvailableBytes = avail]

packetIsDuplicate(n) == n.lastOctreePacket = n.octreePacket

\* [suppress, nd]: the verdict and the session with its duplicate counter
shouldSuppressDuplicatePacket(n) ==
    IF n.isShuttingDown THEN [suppress |-> TRUE, nd |-> n]
    ELSE IF ~n.viewFrustumChanging /\ packetIsDuplicate(n)
    THEN [suppress |-> TRUE,
          nd |-> [n EXCEPT !.duplicatePacketCount = @ + 1]]
    ELSE [suppress |-> FALSE,
          nd |-> [n EXCEPT !.duplicatePacketCount = 0]]

incrementSequenceNumber(n) == [n EXCEPT !.sequenceNumber = @ + 1]

\* [changed, nd]: pulls the externally set view and LOD
updateCurrentViewFrustum(n) ==
    IF n.isShuttingDown THEN [changed |-> FALSE, nd |-> n]
    ELSE LET changed == n.camera # n.currentViewFrustum
             lod == IF n.lodInitialized
                    THEN n.lodChanged
                         \/ n.lastClientBoundaryLevelAdjust # n.boundaryLevelAdjust
                    ELSE FALSE
         IN [changed |-> changed,
             nd |-> [n EXCEPT
                 !.currentViewFrustum = n.camera,
                 !.lodInitialized = TRUE,
                 !.lastClientBoundaryLevelAdjust = n.boundaryLevelAdjust,
                 !.lodChanged = lod,
                 !.viewFrustumJustStoppedChanging =
                     IF n.viewFrustumChanging /\ ~changed THEN TRUE ELSE @,
                 !.viewFrustumChanging = changed]]

updateLastKnownViewFrustum(n) ==
    IF n.isShuttingDown THEN n
    ELSE [n EXCEPT !.lastKnownViewFrustum = n.currentViewFrustum,
                   !.lastTimeBagEmpty = "thisCycle"]

setViewSent(n, viewSent) ==
    IF n.isShuttingDown THEN n
    ELSE IF viewSent
    THEN [n EXCEPT !.viewSent = TRUE,
                   !.viewFrustumJustStoppedChanging = FALSE,
                   !.lodChanged = FALSE]
    ELSE [n EXCEPT !.viewSent = FALSE]

moveShouldDump(n) ==
    /\ ~n.isShuttingDown
    /\ n.lastKnownViewFrustum # n.currentViewFrustum

\* whether an element lies inside a view frustum
isInView(e, v) == e = RootElement \/ (e + v) % 2 = 0

dumpOutOfView(n) ==
    IF n.isShuttingDown THEN n
    ELSE [n EXCEPT !.nodeBag = {e \in @ : isInView(e, n.currentViewFrustum)}]

\* OctreeSceneStats
sceneCompleted(n) ==
    IF n.statsStarted
    THEN [n EXCEPT !.statsReady = TRUE, !.statsStarted = FALSE]
    ELSE n
sceneStarted(n) == [n EXCEPT !.statsStarted = TRUE]
markAsSent(n) == [n EXCEPT !.statsReady = FALSE]

\* OctreePacketData
changeSettings(compressed, targetSize) ==
    [compressed |-> compressed, targetSize |-> targetSize, bytes |-> <<>>,
     inflate |-> 0]
hasContent(p) == Len(p.bytes) > 0
\* the finalized form: compression keeps the content and may pad it
getFinalizedData(p) ==
    IF p.compressed THEN p.bytes \o Chunk(p.inflate, 0) ELSE p.bytes
getFinalizedSize(p) == Len(getFinalizedData(p))
\* the assembler as line 292 leaves it for the compression setting captured
\* at line 278 and a packet with avail bytes left
Retargeted(wantCompression, avail) ==
    changeSettings(wantCompression,
                   IF wantCompression THEN avail - SectionSizeBytes
                   ELSE MAX_OCTREE_PACKET_DATA_SIZE)

\* ------------------------------------------------------ handlePacketSend
\* the datagrams one call writes, in order
Datagram(kind, n, len) ==
    [kind |-> kind, seq |-> n.octreePacketSeq, payload |-> n.octreePacket,
     len |-> len]

\* the result of a call: [nd, packetsSent, trueBytes, truePackets, dgrams,
\* suppressed]; lines 126-128 and 139-142 return without a datagram
NothingSent(n, suppressed) ==
    [nd |-> n, packetsSent |-> 0, trueBytes |-> 0, truePackets |-> 0,
     dgrams |-> <<>>, suppressed |-> suppressed]

\* variants of lines 240-247: a sent packet that consumes no sequence
\* number, and a sent packet that is not reset
AfterPacketSent_NoIncrement(n) == resetOctreePacket(n)
AfterPacketSent_NoReset(n) == incrementSequenceNumber(n)

\* lines 240-247: a sent packet consumes a sequence number and is reset
AfterPacketSent(n) == resetOctreePacket(incrementSequenceNumber(n))

\* a variant of lines 186 and 205 that does not count the packet that went
\* out with the statistics as sent
PacketSent_OnlyWaiting(n1, stats) ==
    n1.octreePacketWaiting /\ ~n1.isShuttingDown

\* lines 186, 205 and 225: packetSent, set where the octree packet is written
PacketSent(n1, stats) ==
    stats \/ (n1.octreePacketWaiting /\ ~n1.isShuttingDown)

\* lines 144-249: the packet goes out, with the statistics when they are ready
SendWaiting(n1) ==
    LET plen == getPacketLength(n1)
        stats == n1.statsReady /\ ~n1.isShuttingDown
        piggy == plen + StatsMessageLength < MAX_PACKET_SIZE
        separate == stats /\ ~piggy
        packetSent == PacketSent(n1, stats)
        dgrams == IF stats
                  THEN IF piggy
                       THEN <<Datagram("stats+octree", n1, StatsMessageLength + plen)>>
                       ELSE <<[kind |-> "stats", seq |-> -1, payload |-> <<>>,
                               len |-> StatsMessageLength],
                              Datagram("octree", n1, plen)>>
                  ELSE IF packetSent THEN <<Datagram("octree", n1, plen)>>
                       ELSE <<>>
        n2 == IF stats THEN markAsSent(n1) ELSE n1
        n3 == IF packetSent THEN AfterPacketSent(n2) ELSE n2
        sent == (IF separate THEN 1 ELSE 0) + (IF packetSent THEN 1 ELSE 0)
    IN [nd |-> n3, packetsSent |-> sent,
        trueBytes |-> (IF separate THEN StatsMessageLength ELSE 0)
                      + (IF packetSent THEN plen ELSE 0),
        truePackets |-> sent, dgrams |-> dgrams, suppressed |-> FALSE]

\* a variant of handlePacketSend without lines 139-142
handlePacketSend_NoSuppression(n) ==
    IF n.isShuttingDown
    THEN NothingSent(n, FALSE)
    ELSE SendWaiting(shouldSuppressDuplicatePacket(n).nd)

\* One call of OctreeSendThread::handlePacketSend on session n.
handlePacketSend(n) ==
    IF n.isShuttingDown
    THEN NothingSent(n, FALSE)
    ELSE LET s == shouldSuppressDuplicatePacket(n)
         IN IF s.suppress
            THEN NothingSent(resetOctreePacket(s.nd), TRUE)
            ELSE SendWaiting(s.nd)

\* ----------------------------------------------------------- histories
IsPrefix(a, b) == Len(a) <= Len(b) /\ SubSeq(b, 1, Len(a)) = a
\* the encoded bytes of a payload, without section sizes and padding
IsElementByte(b) == b \in Elements
Content(payload) == SelectSeq(payload, IsElementByte)

\* the bytes that the datagrams of one call put on the wire
RECURSIVE DatagramBytes(_)
DatagramBytes(dgrams) ==
    IF dgrams = <<>> THEN 0 ELSE Head(dgrams).len + DatagramBytes(Tail(dgrams))

NoCall ==
    [site |-> "none", down |-> FALSE, dup |-> FALSE, changing |-> FALSE,
     waiting |-> FALSE, stats |-> FALSE, length |-> 0, countBefore |-> 0,
     seqBefore |-> 0, kinds |-> <<>>, ret |-> 0, trueBytes |-> 0,
     truePackets |-> 0, countAfter |-> 0, seqAfter |-> 0, lengthAfter |-> 0,
     suppressed |-> FALSE, statsAfter |-> FALSE, bytes |-> 0]

\* what a call did, next to the state it was made in
CallRecord(site, n, r) ==
    [site |-> site, down |-> n.isShuttingDown,
     dup |-> n.lastOctreePacket = n.octreePacket,
     changing |-> n.viewFrustumChanging, waiting |-> n.octreePacketWaiting,
     stats |-> n.statsReady, length |-> getPacketLength(n),
     countBefore |-> n.duplicatePacketCount, seqBefore |-> n.sequenceNumber,
     kinds |-> [i \in 1..Len(r.dgrams) |-> r.dgrams[i].kind],
     ret |-> r.packetsSent, trueBytes |-> r.trueBytes,
     truePackets |-> r.truePackets,
     countAfter |-> r.nd.duplicatePacketCount, seqAfter |-> r.nd.sequenceNumber,
     lengthAfter |-> getPacketLength(r.nd), suppressed |-> r.suppressed,
     statsAfter |-> r.nd.statsReady, bytes |-> DatagramBytes(r.dgrams)]

\* the wire after a call: the sequence numbers of the last two octree packets
\* written, and the encoded bytes that have not left the session yet
WireAfter(w, n, r) ==
    LET gone == r.dgrams # <<>> \/ r.suppressed
        content == Content(n.octreePacket)
    IN [w EXCEPT
          !.prevSeq = IF r.dgrams # <<>> THEN w.lastSeq ELSE @,
          !.lastSeq = IF r.dgrams # <<>> THEN r.dgrams[Len(r.dgrams)].seq ELSE @,
          !.unsent = IF gone /\ IsPrefix(content, @)
                     THEN SubSeq(@, Len(content) + 1, Len(@)) ELSE @,
          !.intact = @ /\ (gone => IsPrefix(content, w.unsent))]

\* packetDistributor calling handlePacketSend: the call's effect on the
\* session, on the caller's counters and on the histories
CallHandlePacketSend(w, site) ==
    LET r == handlePacketSend(w.nd)
    IN [w EXCEPT
          !.nd = r.nd,
          !.loc = [@ EXCEPT !.packetsSentThisInterval = @ + r.packetsSent,
                            !.trueBytesSent = @ + r.trueBytes,
                            !.truePacketsSent = @ + r.truePackets],
          !.cyc = [@ EXCEPT !.wireUnits = @ + Len(r.dgrams),
                            !.suppressed = @ \/ r.suppressed],
          !.call = CallRecord(site, w.nd, r),
          !.wire = WireAfter(w.wire, w.nd, r)]

\* the state the distributor works on, and its effect as the next state
World == [nd |-> nodeData, loc |-> loc, cyc |-> cyc, call |-> call,
          wire |-> wire, pd |-> packetData]
Becomes(w) ==
    /\ nodeData' = w.nd
    /\ loc' = w.loc
    /\ cyc' = w.cyc
    /\ call' = w.call
    /\ wire' = w.wire
    /\ packetData' = w.pd

\* ------------------------------------------------------------ initial state
\* the locals of one iteration of the packing loop, followed where the loop
\* is looked at on its own: bytesWritten, params.stopReason and
\* lastNodeDidntFit after the encode call (lines 423-446); whether line 463
\* was passed, sendNow (lines 487-493), and what getAvailable() returned at
\* line 490; whether line 479 put the segment into the packet, and which of
\* the settings it was encoded with differ from the flags of that packet
NoIteration ==
    [encoded |-> FALSE, bytesWritten |-> 0, stopReason |-> "UNKNOWN",
     lastNodeDidntFit |-> FALSE, decided |-> FALSE, sendNow |-> FALSE,
     available |-> 0, compressed |-> FALSE, attempts |-> 0,
     wrote |-> FALSE, writtenSize |-> 0, availableBefore |-> 0, length |-> 0,
     waitingBefore |-> FALSE, appended |-> FALSE, foreign |-> {}]

NoLocals ==
    [viewFrustumChanged |-> FALSE, isFullScene |-> FALSE, wantDelta |-> FALSE,
     wantColor |-> FALSE, wantCompression |-> FALSE, lastViewFrustum |-> -1,
     packetsSentThisInterval |-> 0, truePacketsSent |-> 0, trueBytesSent |-> 0,
     somethingToSend |-> TRUE, completedScene |-> FALSE,
     extraPackingAttempts |-> 0, maxPacketsPerInterval |-> 0,
     iteration |-> NoIteration]

\* the history of a process() call: whether it reached lines 86-87, whether
\* it called usleep, and the line of the return statement it left by (0 while
\* it has not returned false); where the pacing is looked at on its own, also
\* the wall time of the cycle and the argument of usleep
NoRun == [worked |-> FALSE, slept |-> FALSE, exit |-> 0, elapsed |-> 0, usec |-> 0]

\* the history of a call that has not done anything yet; specialCheck is
\* what hasSpecialPacketToSend answered at line 531 ("none" before that line)
\* and downAtSpecial the session's flag when the line read it; encodesWhileDown
\* counts the encode calls that started with the session's flag set,
\* specialWhileDown says that a special packet was sent with the flag set
NewCycle ==
    [entered |-> FALSE, downAtEntry |-> FALSE, bagAtEntry |-> {},
     mapAtEntry |-> FALSE,
     lastKnownAtEntry |-> 0, lodAtEntry |-> FALSE, justStoppedAtEntry |-> FALSE,
     wantDeltaAtEntry |-> FALSE,
     flushedFirst |-> FALSE, restarted |-> FALSE, wireUnits |-> 0,
     suppressed |-> FALSE, encodeCalls |-> 0, retries |-> 0, didntFit |-> FALSE,
     special |-> 0, lastKnownUpdates |-> 0, baselines |-> {}, done |-> FALSE,
     encodesWhileDown |-> 0, specialWhileDown |-> FALSE,
     specialCheck |-> "none", downAtSpecial |-> FALSE]

\* the number of send threads looked at together, and their names
NumWorkers == 2
Workers == 1..NumWorkers

\* the tree before any send thread or writer has touched it: nobody holds
\* its lock, and the send thread has made no access (line 0); no element
\* has been deleted, and the send thread holds no element (subTree 0) whose
\* deletion it could have missed
NoAccess == [line |-> 0, locked |-> FALSE, writing |-> FALSE]
NewTree ==
    [writeLocked |-> FALSE, readLocked |-> FALSE, lastChanged |-> 0,
     access |-> NoAccess, gone |-> {}, subTree |-> 0, deleted |-> FALSE]

\* lines 114-119: the totals start at 0; next to them, per worker, the value
\* it has loaded for an update in progress and what it has sent so far
NewTotals ==
    [totalBytes |-> 0, totalPackets |-> 0,
     at |-> [w \in Workers |-> "idle"],
     loaded |-> [w \in Workers |-> 0],
     length |-> [w \in Workers |-> 0],
     sentBytes |-> [w \in Workers |-> 0],
     sentPackets |-> [w \in Workers |-> 0]]

\* OctreeQueryNode::OctreeQueryNode and init(), with the wants of the
\* client's first query, for client rates PPS and server caps Caps: all but
\* the position and the state of the thread. The packet is locked to these
\* wants and the assembler is set up for them, as lines 282-293 leave them
InitWith(PPS, Caps) ==
    /\ \E wc \in BOOLEAN, wd \in BOOLEAN, pps \in PPS :
         nodeData =
           [wantColor |-> TRUE, wantCompression |-> wc, wantDelta |-> wd,
            maxOctreePPS |-> pps, boundaryLevelAdjust |-> 0, camera |-> 0,
            viewSent |-> FALSE,
            octreePacket |-> <<>>, octreePacketSeq |-> 0,
            octreePacketAvailableBytes |-> MAX_PACKET_SIZE - PacketHeaderSize,
            octreePacketWaiting |-> FALSE,
            lastOctreePacket |-> <<>>, duplicatePacketCount |-> 0,
            currentViewFrustum |-> 0, lastKnownViewFrustum |-> 0,
            lastTimeBagEmpty |-> "never",
            viewFrustumChanging |-> FALSE,
            viewFrustumJustStoppedChanging |-> TRUE,
            currentPacketIsColor |-> TRUE, currentPacketIsCompressed |-> wc,
            lastClientBoundaryLevelAdjust |-> 0, lodChanged |-> FALSE,
            lodInitialized |-> FALSE,
            sequenceNumber |-> 0, isShuttingDown |-> FALSE,
            nodeBag |-> {}, map |-> FALSE,
            statsStarted |-> FALSE, statsReady |-> FALSE]
    /\ packetData = Retargeted(nodeData.wantCompression,
                               nodeData.octreePacketAvailableBytes)
    /\ loc = NoLocals
    /\ threadShuttingDown = FALSE
    /\ \E cap \in Caps :
         server = [initialLoadComplete |-> FALSE,
                   packetsPerClientPerInterval |-> cap]
    /\ cyc = NewCycle
    /\ call = NoCall
    /\ wire = [lastSeq |-> -1, prevSeq |-> -1, unsent |-> <<>>, intact |-> TRUE]
    /\ queries = 0
    /\ tree = NewTree
    /\ totals = NewTotals

\* OctreeSendThread::OctreeSendThread: a thread on a valid assignment and node
NewThread ==
    [stopThread |-> FALSE, assignment |-> TRUE, nodeLinked |-> TRUE, run |-> NoRun]

Init ==
    /\ InitWith(ClientPPS, ServerCaps)
    /\ pc = "idle"
    /\ thread = NewThread

\* ------------------------------------------------- asynchronous events
\* the send thread reads the camera, the LOD, the load state and its own
\* shutdown flag only at the start and at the end of a process() cycle
\* (lines 65, 79, 83 and 92): a change of these during packetDistributor has
\* the effect of the same change made while the thread sleeps
BetweenCycles == pc \in {"idle", "sleep"}

\* the thread reads nothing of its session during the pacing sleep: what
\* happens to the session then is taken as happening right after the sleep
Asleep == pc = "sleeping"

\* an inbound query packet changes one of the client's wants
ClientQuery ==
    /\ ~Asleep
    /\ queries < MaxQueries
    /\ queries' = queries + 1
    /\ \/ BetweenCycles /\ nodeData' = [nodeData EXCEPT !.camera = 1 - @]
       \/ BetweenCycles /\ nodeData' = [nodeData EXCEPT !.boundaryLevelAdjust = 1 - @]
       \/ nodeData' = [nodeData EXCEPT !.wantColor = ~@]
       \/ nodeData' = [nodeData EXCEPT !.wantCompression = ~@]
    /\ UNCHANGED <<packetData, pc, loc, threadShuttingDown, server, cyc, call, wire,
                   thread>>
    /\ UNCHANGED <<tree, totals>>

\* OctreeQueryNode::nodeKilled / forceNodeShutdown
NodeShutdown ==
    /\ ~Asleep
    /\ ~nodeData.isShuttingDown
    /\ nodeData' = [nodeData EXCEPT !.isShuttingDown = TRUE]
    /\ UNCHANGED <<packetData, pc, loc, threadShuttingDown, server, cyc, call,
                   wire, queries, thread>>
    /\ UNCHANGED <<tree, totals>>

\* the send thread reads its shutdown flag at lines 65 and 92 only: setting
\* it during packetDistributor has the effect of setting it before line 92
FlagPolled == pc \in {"idle", "sleep", "sleeping"}

\* OctreeSendThread::setIsShuttingDown
setIsShuttingDown ==
    /\ FlagPolled
    /\ ~threadShuttingDown
    /\ threadShuttingDown' = TRUE
    /\ UNCHANGED <<nodeData, packetData, pc, loc, server, cyc, call, wire, queries, thread>>
    /\ UNCHANGED <<tree, totals>>

\* the server finishes loading the tree
InitialLoadCompletes ==
    /\ BetweenCycles
    /\ ~server.initialLoadComplete
    /\ server' = [server EXCEPT !.initialLoadComplete = TRUE]
    /\ UNCHANGED <<nodeData, packetData, pc, loc, threadShuttingDown, cyc, call,
                   wire, queries, thread>>
    /\ UNCHANGED <<tree, totals>>

\* GenericThread::terminate: isStillRunning() is FALSE from now on
terminate ==
    /\ FlagPolled
    /\ ~thread.stopThread
    /\ thread' = [thread EXCEPT !.stopThread = TRUE]
    /\ UNCHANGED <<nodeData, packetData, pc, loc, threadShuttingDown, server, cyc,
                   call, wire, queries>>
    /\ UNCHANGED <<tree, totals>>

\* the client node, or the session data linked to it, goes missing
NodeUnlinked ==
    /\ BetweenCycles
    /\ thread.nodeLinked
    /\ thread' = [thread EXCEPT !.nodeLinked = FALSE]
    /\ UNCHANGED <<nodeData, packetData, pc, loc, threadShuttingDown, server, cyc,
                   call, wire, queries>>
    /\ UNCHANGED <<tree, totals>>

\* the server or the assignment goes away
AssignmentCleared ==
    /\ BetweenCycles
    /\ thread.assignment
    /\ thread' = [thread EXCEPT !.assignment = FALSE]
    /\ UNCHANGED <<nodeData, packetData, pc, loc, threadShuttingDown, server, cyc,
                   call, wire, queries>>
    /\ UNCHANGED <<tree, totals>>

\* ------------------------------------------------------------- process()
\* lines 79-85: there is a tree, a client node and a live session to work on
CanWork_NoLoadCheck ==
    /\ thread.nodeLinked
    /\ ~nodeData.isShuttingDown

CanWork ==
    /\ server.initialLoadComplete
    /\ thread.nodeLinked
    /\ ~nodeData.isShuttingDown

\* line 65; the variant is a process() without that check
FlagAtEntry_Ignored == FALSE

FlagAtEntry == threadShuttingDown

\* lines 64-90: the entry checks, the view update and the call of
\* packetDistributor; the run loop of the thread calls process() while
\* isStillRunning(). A call that is going to work starts while the sequence
\* number and the duplicate counter are below their bounds.
ProcessBegin ==
    /\ pc = "idle"
    /\ ~thread.stopThread
    /\ IF FlagAtEntry
       THEN /\ pc' = "stopped"
            /\ thread' = [thread EXCEPT !.run = [NoRun EXCEPT !.exit = 66]]
            /\ UNCHANGED <<nodeData, loc, cyc, call>>
       ELSE IF ~thread.assignment
       THEN /\ pc' = "stopped"
            /\ thread' = [thread EXCEPT !.run = [NoRun EXCEPT !.exit = 71]]
            /\ UNCHANGED <<nodeData, loc, cyc, call>>
       ELSE IF CanWork
       THEN /\ nodeData.sequenceNumber < MaxSequence
            /\ nodeData.duplicatePacketCount < MaxDuplicates
            /\ LET u == updateCurrentViewFrustum(
                            [nodeData EXCEPT !.lastTimeBagEmpty =
                                 IF @ = "never" THEN @ ELSE "earlier"])
               IN /\ nodeData' = u.nd
                  /\ loc' = [NoLocals EXCEPT !.viewFrustumChanged = u.changed]
            /\ cyc' = NewCycle
            /\ call' = NoCall
            /\ thread' = [thread EXCEPT !.run = [NoRun EXCEPT !.worked = TRUE]]
            /\ pc' = "distribute"
       ELSE /\ pc' = "sleep"
            /\ thread' = [thread EXCEPT !.run = NoRun]
            /\ UNCHANGED <<nodeData, loc, cyc, call>>
    /\ UNCHANGED <<packetData, threadShuttingDown, server, wire, queries>>
    /\ UNCHANGED <<tree, totals>>

\* lines 92-109: the second check of the flag, and the pacing sleep of a
\* thread that is still running (usleep is called on either branch of line
\* 102); the locals of the cycle go out of scope
ProcessEnd ==
    /\ pc = "sleep"
    /\ IF threadShuttingDown
       THEN /\ pc' = "stopped"
            /\ thread' = [thread EXCEPT !.run = [@ EXCEPT !.exit = 93]]
       ELSE /\ pc' = "sleeping"
            /\ thread' = [thread EXCEPT !.run = [@ EXCEPT !.slept = ~thread.stopThread]]
    /\ loc' = NoLocals
    /\ cyc' = NewCycle
    /\ call' = NoCall
    /\ UNCHANGED <<nodeData, packetData, threadShuttingDown, server, wire, queries>>
    /\ UNCHANGED <<tree, totals>>

\* line 111: return isStillRunning()
ProcessReturn ==
    /\ pc = "sleeping"
    /\ IF thread.stopThread
       THEN /\ pc' = "stopped"
            /\ thread' = [thread EXCEPT !.run = [@ EXCEPT !.exit = 111]]
       ELSE /\ pc' = "idle"
            /\ thread' = [thread EXCEPT !.run = NoRun]
    /\ UNCHANGED <<nodeData, packetData, loc, threadShuttingDown, server, cyc, call,
                   wire, queries>>
    /\ UNCHANGED <<tree, totals>>

\* ------------------------------------------------------ packetDistributor
\* variants of lines 265-266: one without the LOD clause, one without the
\* delta clause
isFullScene_NoLod(viewFrustumChanged, n) ==
    (~viewFrustumChanged \/ ~n.wantDelta) /\ n.viewFrustumJustStoppedChanging
isFullScene_IgnoreDelta(viewFrustumChanged, n) ==
    n.viewFrustumJustStoppedChanging \/ n.lodChanged

\* lines 265-266
isFullScene(viewFrustumChanged, n) ==
    \/ ((~viewFrustumChanged \/ ~n.wantDelta) /\ n.viewFrustumJustStoppedChanging)
    \/ n.lodChanged

\* a variant of line 359 without the floor of one packet
maxPacketsPerInterval_NoFloor(n, srv) ==
    Min(n.maxOctreePPS \div INTERVALS_PER_SECOND, srv.packetsPerClientPerInterval)

\* lines 359-360
maxPacketsPerInterval(n, srv) ==
    LET clientMaxPacketsPerInterval == Max(1, n.maxOctreePPS \div INTERVALS_PER_SECOND)
    IN Min(clientMaxPacketsPerInterval, srv.packetsPerClientPerInterval)

\* lines 265-278: the values captured at entry
EnterLocals ==
    [loc EXCEPT
        !.isFullScene = isFullScene(loc.viewFrustumChanged, nodeData),
        !.wantDelta = loc.viewFrustumChanged /\ nodeData.wantDelta,
        !.wantColor = nodeData.wantColor,
        !.wantCompression = nodeData.wantCompression]

\* the session as the call found it
EnterHistory(done) ==
    [cyc EXCEPT
        !.entered = TRUE,
        !.downAtEntry = nodeData.isShuttingDown,
        !.bagAtEntry = nodeData.nodeBag,
        !.mapAtEntry = nodeData.map,
        !.lastKnownAtEntry = nodeData.lastKnownViewFrustum,
        !.lodAtEntry = nodeData.lodChanged,
        !.justStoppedAtEntry = nodeData.viewFrustumJustStoppedChanging,
        !.wantDeltaAtEntry = nodeData.wantDelta,
        !.done = done]

\* a variant of the entry without the check of line 258
DistributorEnter_NoShutdownCheck ==
    /\ pc = "distribute"
    /\ pc' = "format"
    /\ loc' = EnterLocals
    /\ cyc' = EnterHistory(FALSE)
    /\ UNCHANGED <<nodeData, packetData, threadShuttingDown, server, call, wire,
                   queries,
                   thread>>
    /\ UNCHANGED <<tree, totals>>

\* lines 253-278: the entry check and the values captured at entry
DistributorEnter ==
    /\ pc = "distribute"
    /\ IF nodeData.isShuttingDown
       THEN /\ pc' = "sleep"
            /\ cyc' = EnterHistory(TRUE)
            /\ UNCHANGED loc
       ELSE /\ pc' = "format"
            /\ loc' = EnterLocals
            /\ cyc' = EnterHistory(FALSE)
    /\ UNCHANGED <<nodeData, packetData, threadShuttingDown, server, call, wire,
                   queries,
                   thread>>
    /\ UNCHANGED <<tree, totals>>

\* a variant of lines 280-293 that resets the packet without sending it
FormatFlush_ResetOnly(w) ==
    IF getCurrentPacketFormatMatches(w.nd)
    THEN w
    ELSE LET r == [w EXCEPT !.nd = resetOctreePacket(@)]
             targetSize == IF w.loc.wantCompression
                           THEN r.nd.octreePacketAvailableBytes - SectionSizeBytes
                           ELSE MAX_OCTREE_PACKET_DATA_SIZE
         IN [r EXCEPT !.cyc = [@ EXCEPT !.flushedFirst = TRUE],
                      !.pd = changeSettings(w.loc.wantCompression, targetSize)]

\* lines 280-293: a waiting packet of another format is sent first
FormatFlush(w) ==
    IF getCurrentPacketFormatMatches(w.nd)
    THEN w
    ELSE LET r == IF w.nd.octreePacketWaiting
                  THEN CallHandlePacketSend(w, "format")
                  ELSE [w EXCEPT !.nd = resetOctreePacket(@)]
             targetSize == IF w.loc.wantCompression
                           THEN r.nd.octreePacketAvailableBytes - SectionSizeBytes
                           ELSE MAX_OCTREE_PACKET_DATA_SIZE
         IN [r EXCEPT !.cyc = [@ EXCEPT !.flushedFirst = TRUE],
                      !.pd = changeSettings(w.loc.wantCompression, targetSize)]

\* a variant of line 295 that hands the encoder a baseline in every cycle
deltaBaseline_Always(wantDelta, n) == n.lastKnownViewFrustum

\* line 295: the delta baseline the encoder gets, -1 for NULL
deltaBaseline(wantDelta, n) ==
    IF wantDelta THEN n.lastKnownViewFrustum ELSE -1

\* lines 280-295
DistributorFormat ==
    /\ pc = "format"
    /\ LET r == FormatFlush(World)
       IN Becomes([r EXCEPT !.loc = [@ EXCEPT !.lastViewFrustum =
                      deltaBaseline(loc.wantDelta, nodeData)]])
    /\ pc' = "restart"
    /\ UNCHANGED <<threadShuttingDown, server, queries, thread>>
    /\ UNCHANGED <<tree, totals>>

\* a variant of line 299 that restarts the scene on a view change only
needsRestart_ViewOnly(w) == w.loc.viewFrustumChanged

\* line 299: the view changed, or there is nothing left to send
needsRestart(w) == w.loc.viewFrustumChanged \/ w.nd.nodeBag = {}

\* lines 341-344, the branch the code disables: the root goes into an empty
\* bag only
insertRoot_OnlyIfEmpty(bag) == IF bag = {} THEN {RootElement} ELSE bag

\* line 346: the root goes into the bag, whatever the bag holds
insertRoot(bag) == bag \cup {RootElement}

\* a variant of lines 299-348 that erases the map inside the branch of line
\* 303 only
SceneRestart_EraseWithDump(w) ==
    IF ~needsRestart(w)
    THEN w
    ELSE LET n == w.nd
             n1 == IF w.loc.viewFrustumChanged /\ (moveShouldDump(n) \/ n.lodChanged)
                   THEN [dumpOutOfView(n) EXCEPT !.map = FALSE]
                   ELSE n
             n2 == IF ~w.loc.viewFrustumChanged /\ ~n1.wantDelta
                   THEN [n1 EXCEPT !.lastTimeBagEmpty = "thisCycle"]
                   ELSE n1
             r == CallHandlePacketSend([w EXCEPT !.nd = sceneCompleted(n2)], "restart")
             n3 == IF w.loc.isFullScene THEN [r.nd EXCEPT !.nodeBag = {}] ELSE r.nd
             n4 == sceneStarted(n3)
         IN [r EXCEPT !.nd = [n4 EXCEPT !.nodeBag = insertRoot(@)],
                      !.cyc = [@ EXCEPT !.restarted = TRUE]]

\* a variant of lines 299-348 that sets the time of the empty bag for every
\* restart without a view change
SceneRestart_StampAnyMode(w) ==
    IF ~needsRestart(w)
    THEN w
    ELSE LET n == w.nd
             n1 == IF w.loc.viewFrustumChanged
                   THEN [(IF moveShouldDump(n) \/ n.lodChanged
                          THEN dumpOutOfView(n) ELSE n) EXCEPT !.map = FALSE]
                   ELSE n
             n2 == IF ~w.loc.viewFrustumChanged
                   THEN [n1 EXCEPT !.lastTimeBagEmpty = "thisCycle"]
                   ELSE n1
             r == CallHandlePacketSend([w EXCEPT !.nd = sceneCompleted(n2)], "restart")
             n3 == IF w.loc.isFullScene THEN [r.nd EXCEPT !.nodeBag = {}] ELSE r.nd
             n4 == sceneStarted(n3)
         IN [r EXCEPT !.nd = [n4 EXCEPT !.nodeBag = insertRoot(@)],
                      !.cyc = [@ EXCEPT !.restarted = TRUE]]

\* lines 299-348: the scene restart
SceneRestart(w) ==
    IF ~needsRestart(w)
    THEN w
    ELSE LET n == w.nd
             n1 == IF w.loc.viewFrustumChanged
                   THEN [(IF moveShouldDump(n) \/ n.lodChanged
                          THEN dumpOutOfView(n) ELSE n) EXCEPT !.map = FALSE]
                   ELSE n
             n2 == IF ~w.loc.viewFrustumChanged /\ ~n1.wantDelta
                   THEN [n1 EXCEPT !.lastTimeBagEmpty = "thisCycle"]
                   ELSE n1
             r == CallHandlePacketSend([w EXCEPT !.nd = sceneCompleted(n2)], "restart")
             n3 == IF w.loc.isFullScene THEN [r.nd EXCEPT !.nodeBag = {}] ELSE r.nd
             n4 == sceneStarted(n3)
         IN [r EXCEPT !.nd = [n4 EXCEPT !.nodeBag = insertRoot(@)],
                      !.cyc = [@ EXCEPT !.restarted = TRUE]]

\* lines 297-363
DistributorRestart ==
    /\ pc = "restart"
    /\ LET r == SceneRestart(World)
       IN IF r.nd.nodeBag # {}
          THEN /\ Becomes([r EXCEPT !.loc = [@ EXCEPT !.maxPacketsPerInterval =
                              maxPacketsPerInterval(nodeData, server)]])
               /\ pc' = "loop"
          ELSE /\ Becomes([r EXCEPT !.cyc = [@ EXCEPT !.done = TRUE]])
               /\ pc' = "sleep"
    /\ UNCHANGED <<threadShuttingDown, server, queries, thread>>
    /\ UNCHANGED <<tree, totals>>

\* a variant of line 364 that does not look at the session's flag
LoopGuard_NoShutdownCheck(n, l) ==
    /\ l.somethingToSend
    /\ l.packetsSentThisInterval < l.maxPacketsPerInterval

\* line 364: the guard of the packing loop
LoopGuard(n, l) ==
    /\ l.somethingToSend
    /\ l.packetsSentThisInterval < l.maxPacketsPerInterval
    /\ ~n.isShuttingDown

DistributorLoop ==
    /\ pc = "loop"
    /\ pc' = IF LoopGuard(nodeData, loc) THEN "iterate" ELSE "special"
    /\ UNCHANGED <<nodeData, packetData, loc, threadShuttingDown, server, cyc,
                   call, wire, queries, thread>>
    /\ UNCHANGED <<tree, totals>>

\* a variant of lines 432-446 that does not look at the stop reason
LastNodeDidntFit_AnyReason(p, bytesWritten, stopReason) ==
    IF p.targetSize = MAX_OCTREE_PACKET_DATA_SIZE
    THEN hasContent(p) /\ bytesWritten = 0
    ELSE bytesWritten = 0

\* lines 432-446
LastNodeDidntFit(p, bytesWritten, stopReason) ==
    IF p.targetSize = MAX_OCTREE_PACKET_DATA_SIZE
    THEN hasContent(p) /\ bytesWritten = 0 /\ stopReason = "DIDNT_FIT"
    ELSE bytesWritten = 0 /\ stopReason = "DIDNT_FIT"

\* a variant of lines 485-493 that packs more whatever the packet's format
sendNow_IgnoreCompressed(n, l) ==
    ~(/\ n.octreePacketAvailableBytes >= MINIMUM_ATTEMPT_MORE_PACKING
      /\ l.extraPackingAttempts <= REASONABLE_NUMBER_OF_PACKING_ATTEMPTS)

\* lines 485-493
sendNow(n, l) ==
    ~(/\ n.currentPacketIsCompressed
      /\ n.octreePacketAvailableBytes >= MINIMUM_ATTEMPT_MORE_PACKING
      /\ l.extraPackingAttempts <= REASONABLE_NUMBER_OF_PACKING_ATTEMPTS)

\* lines 471-472: the finalized segment with its section size
writtenSize(n, p) ==
    getFinalizedSize(p) + (IF n.currentPacketIsCompressed THEN SectionSizeBytes ELSE 0)

\* lines 464-483: the finalized segment goes into the packet, after a flush
\* of the packet when the segment does not fit
WriteSegment(w) ==
    IF ~hasContent(w.pd)
    THEN w
    ELSE LET r == IF writtenSize(w.nd, w.pd) > w.nd.octreePacketAvailableBytes
                  THEN CallHandlePacketSend(w, "overflow")
                  ELSE w
         IN [r EXCEPT !.nd = writeToPacket(@, getFinalizedData(w.pd)),
                      !.loc = [@ EXCEPT !.extraPackingAttempts = 0]]

\* lines 463-516: write, then send now or try to pack more
PackAndSend(w, lastNodeDidntFit) ==
    IF ~(w.loc.completedScene \/ lastNodeDidntFit)
    THEN w
    ELSE LET x == WriteSegment(w)
         IN IF sendNow(x.nd, x.loc)
            THEN LET r == CallHandlePacketSend(x, "send")
                     targetSize == IF w.loc.wantCompression
                                   THEN r.nd.octreePacketAvailableBytes - SectionSizeBytes
                                   ELSE MAX_OCTREE_PACKET_DATA_SIZE
                 IN [r EXCEPT !.pd = changeSettings(r.nd.wantCompression, targetSize)]
            ELSE [x EXCEPT !.pd = changeSettings(x.nd.wantCompression,
                            x.nd.octreePacketAvailableBytes - SectionSizeBytes
                                - COMPRESS_PADDING)]

\* lines 373-449: the result of one encodeTreeBitstream call on subTree:
\* n bytes appended to the assembler, a stop reason, and elements put back
\* into the bag
Encoded(w, subTree, n, reason, inflate, residual) ==
    LET refused == n = 0 /\ reason = "DIDNT_FIT"
        bag == (w.nd.nodeBag \ {subTree}) \cup residual
                  \cup (IF refused THEN {subTree} ELSE {})
        pd == [w.pd EXCEPT
                  !.bytes = @ \o Chunk(n, subTree),
                  !.inflate = IF w.pd.compressed /\ n > 0 THEN inflate ELSE @]
    IN [w EXCEPT
          !.pd = pd,
          !.nd = [@ EXCEPT !.nodeBag = bag, !.map = @ \/ n > 0],
          !.loc = [@ EXCEPT
              !.completedScene = (bag = {}),
              !.extraPackingAttempts =
                  IF pd.targetSize = MAX_OCTREE_PACKET_DATA_SIZE THEN @ ELSE @ + 1],
          !.cyc = [@ EXCEPT
              !.encodeCalls = Min(@ + 1, ManyCalls),
              !.retries = IF refused THEN @ + 1 ELSE @,
              !.baselines = @ \cup {w.loc.lastViewFrustum},
              !.encodesWhileDown =
                  IF w.nd.isShuttingDown THEN Min(@ + 1, ManyCalls) ELSE @,
              !.didntFit = @ \/ LastNodeDidntFit(pd, n, reason)],
          !.wire = [@ EXCEPT !.unsent = @ \o Chunk(n, subTree)]]

\* lines 365-525: one iteration of the packing loop
DistributorIterate ==
    /\ pc = "iterate"
    /\ pc' = "loop"
    /\ IF nodeData.nodeBag # {}
       THEN \E subTree \in nodeData.nodeBag, n \in 0..MaxEncodeBytes,
               reason \in StopReasons, inflate \in 0..MaxInflate :
            \E residual \in SUBSET Children(subTree) :
               /\ n <= packetData.targetSize - Len(packetData.bytes)
               /\ n > 0 => reason \in {"UNKNOWN", "DIDNT_FIT"}
               /\ inflate = 0 \/ (packetData.compressed /\ n > 0)
               /\ (n = 0 /\ reason = "DIDNT_FIT") => cyc.retries < MaxRetries
               /\ LET e == Encoded(World, subTree, n, reason, inflate, residual)
                  IN Becomes(PackAndSend(e, LastNodeDidntFit(e.pd, n, reason)))
       ELSE Becomes(PackAndSend(
                [World EXCEPT !.loc = [@ EXCEPT !.somethingToSend = FALSE]], FALSE))
    /\ UNCHANGED <<threadShuttingDown, server, queries, thread>>
    /\ UNCHANGED <<tree, totals>>

\* a variant of line 531 that does not look at the session's flag
SpecialDue_IgnoreShutdown(n, hasSpecialPacketToSend) == hasSpecialPacketToSend

\* line 531: the condition under which the special packet is sent
SpecialDue(n, hasSpecialPacketToSend) ==
    hasSpecialPacketToSend /\ ~n.isShuttingDown

\* line 531: the server has a special packet for the client, and the session
\* is not shutting down
DistributorSpecial ==
    /\ pc = "special"
    /\ \E hasSpecialPacketToSend \in BOOLEAN :
         /\ pc' = IF SpecialDue(nodeData, hasSpecialPacketToSend)
                  THEN "sendSpecial" ELSE "finish"
         /\ cyc' = [cyc EXCEPT
                       !.specialCheck = IF hasSpecialPacketToSend
                                        THEN "pending" ELSE "absent",
                       !.downAtSpecial = hasSpecialPacketToSend
                                           /\ nodeData.isShuttingDown]
    /\ UNCHANGED <<nodeData, packetData, loc, threadShuttingDown, server,
                   call, wire, queries, thread>>
    /\ UNCHANGED <<tree, totals>>

\* lines 532-534: the special packet is sent and counted
DistributorSendSpecial ==
    /\ pc = "sendSpecial"
    /\ loc' = [loc EXCEPT !.truePacketsSent = @ + 1,
                          !.trueBytesSent = @ + 1,
                          !.packetsSentThisInterval = @ + 1]
    /\ cyc' = [cyc EXCEPT !.special = @ + 1,
                          !.specialWhileDown = @ \/ nodeData.isShuttingDown]
    /\ pc' = "finish"
    /\ UNCHANGED <<nodeData, packetData, threadShuttingDown, server, call, wire,
                   queries, thread>>
    /\ UNCHANGED <<tree, totals>>

\* a variant of lines 548-554 without the check of line 550
SceneSent_Always(n) ==
    [setViewSent(updateLastKnownViewFrustum(n), TRUE) EXCEPT !.map = FALSE]

\* lines 548-554: a scene that has been sent completely
SceneSent(n) ==
    IF n.nodeBag = {}
    THEN [setViewSent(updateLastKnownViewFrustum(n), TRUE) EXCEPT !.map = FALSE]
    ELSE n

DistributorFinish ==
    /\ pc = "finish"
    /\ nodeData' = SceneSent(nodeData)
    /\ cyc' = [cyc EXCEPT !.done = TRUE,
                  !.lastKnownUpdates =
                      IF nodeData.nodeBag = {} /\ ~nodeData.isShuttingDown
                      THEN @ + 1 ELSE @]
    /\ pc' = "sleep"
    /\ UNCHANGED <<packetData, loc, threadShuttingDown, server, call, wire, queries, thread>>
    /\ UNCHANGED <<tree, totals>>

Next ==
    \/ ClientQuery
    \/ NodeShutdown
    \/ setIsShuttingDown
    \/ InitialLoadCompletes
    \/ ProcessBegin
    \/ ProcessEnd
    \/ ProcessReturn
    \/ DistributorEnter
    \/ DistributorFormat
    \/ DistributorRestart
    \/ DistributorLoop
    \/ DistributorIterate
    \/ DistributorSpecial
    \/ DistributorSendSpecial
    \/ DistributorFinish

Spec == Init /\ [][Next]_vars

\* ------------------------------------- the thread and its environment
\* the send thread on a session whose wants stay as they are, with the events
\* that end the thread or take its session away
ThreadStep ==
    \/ ProcessBegin
    \/ ProcessEnd
    \/ ProcessReturn
    \/ DistributorEnter
    \/ DistributorFormat
    \/ DistributorRestart
    \/ DistributorLoop
    \/ DistributorIterate
    \/ DistributorSpecial
    \/ DistributorSendSpecial
    \/ DistributorFinish

ThreadNext ==
    \/ ThreadStep
    \/ NodeShutdown
    \/ setIsShuttingDown
    \/ InitialLoadCompletes
    \/ terminate
    \/ NodeUnlinked
    \/ AssignmentCleared

ThreadSpec == Init /\ [][ThreadNext]_vars

\* the thread is scheduled again and again, and usleep returns
ThreadFairSpec == ThreadSpec /\ WF_vars(ThreadStep)

\* ------------------------------------------- the packing loop on its own
\* EncodeBitstreamParams::reason, all values (Octree.h lines 91-100)
AllStopReasons ==
    {"UNKNOWN", "DIDNT_FIT", "NULL_NODE", "TOO_DEEP", "OUT_OF_JURISDICTION",
     "LOD_SKIP", "OUT_OF_VIEW", "WAS_IN_VIEW", "NO_CHANGE", "OCCLUDED"}

\* encode calls of one cycle that may write nothing and report DIDNT_FIT,
\* where the packing is looked at on its own
PackRetries == 2

\* lines 365-454: the first half of an iteration, up to the locals that the
\* encode call leaves behind, with at most maxRetries encode calls of the
\* cycle that write nothing and report DIDNT_FIT
PackEncodeUpTo(maxRetries) ==
    /\ pc = "iterate"
    /\ pc' = "pack"
    /\ IF nodeData.nodeBag # {}
       THEN \E subTree \in nodeData.nodeBag, n \in 0..MaxEncodeBytes,
               reason \in AllStopReasons, inflate \in 0..MaxInflate :
            \E residual \in SUBSET Children(subTree) :
               /\ n <= packetData.targetSize - Len(packetData.bytes)
               /\ n > 0 => reason \in {"UNKNOWN", "DIDNT_FIT"}
               /\ inflate = 0 \/ (packetData.compressed /\ n > 0)
               /\ (n = 0 /\ reason = "DIDNT_FIT") => cyc.retries < maxRetries
               /\ LET e == Encoded(World, subTree, n, reason, inflate, residual)
                  IN Becomes([e EXCEPT !.loc = [@ EXCEPT !.iteration =
                        [NoIteration EXCEPT
                            !.encoded = TRUE,
                            !.bytesWritten = n,
                            !.stopReason = reason,
                            !.lastNodeDidntFit =
                                LastNodeDidntFit(e.pd, n, reason)]]])
       ELSE Becomes([World EXCEPT !.loc = [@ EXCEPT !.somethingToSend = FALSE,
                                                     !.iteration = NoIteration]])
    /\ UNCHANGED <<threadShuttingDown, server, queries, thread, tree, totals>>

PackEncode == PackEncodeUpTo(PackRetries)

\* the payload ends with the segment
EndsWith(payload, segment) ==
    /\ Len(segment) <= Len(payload)
    /\ SubSeq(payload, Len(payload) - Len(segment) + 1, Len(payload)) = segment

\* the settings a segment was encoded with (wantColor of line 406, the
\* compression of the assembler) that differ from the flags of the packet n
ForeignSettings(wantColor, p, n) ==
    {f \in {"color"} : wantColor # n.currentPacketIsColor}
        \cup {f \in {"compression"} : p.compressed # n.currentPacketIsCompressed}

\* lines 463-516: the second half, with sendNow and what it was decided on
PackWrite ==
    /\ pc = "pack"
    /\ pc' = "loop"
    /\ LET decided == loc.completedScene \/ loc.iteration.lastNodeDidntFit
           x == WriteSegment(World)
           r == PackAndSend(World, loc.iteration.lastNodeDidntFit)
       IN Becomes([r EXCEPT !.loc = [@ EXCEPT !.iteration =
             IF decided
             THEN [NoIteration EXCEPT
                      !.decided = TRUE,
                      !.sendNow = sendNow(x.nd, x.loc),
                      !.available = x.nd.octreePacketAvailableBytes,
                      !.compressed = x.nd.currentPacketIsCompressed,
                      !.attempts = x.loc.extraPackingAttempts,
                      !.wrote = hasContent(packetData),
                      !.writtenSize = writtenSize(nodeData, packetData),
                      !.availableBefore = nodeData.octreePacketAvailableBytes,
                      !.length = getPacketLength(x.nd),
                      !.waitingBefore = nodeData.octreePacketWaiting,
                      !.appended = hasContent(packetData)
                          /\ EndsWith(x.nd.octreePacket, getFinalizedData(packetData)),
                      !.foreign = IF hasContent(packetData)
                                  THEN ForeignSettings(loc.wantColor, packetData, x.nd)
                                  ELSE {}]
             ELSE NoIteration]])
    /\ UNCHANGED <<threadShuttingDown, server, queries, thread, tree, totals>>

\* the send thread on a session whose wants stay as they are, with the two
\* halves of an iteration as steps
PackNext ==
    \/ InitialLoadCompletes
    \/ ProcessBegin
    \/ ProcessEnd
    \/ ProcessReturn
    \/ DistributorEnter
    \/ DistributorFormat
    \/ DistributorRestart
    \/ DistributorLoop
    \/ PackEncode
    \/ PackWrite
    \/ DistributorSpecial
    \/ DistributorSendSpecial
    \/ DistributorFinish

PackSpec == Init /\ [][PackNext]_vars

\* an inbound query packet changes one of the client's wants while
\* packetDistributor is running
WantsQuery ==
    /\ pc \in {"format", "restart", "loop", "iterate", "pack"}
    /\ queries < MaxQueries
    /\ queries' = queries + 1
    /\ \/ nodeData' = [nodeData EXCEPT !.wantColor = ~@]
       \/ nodeData' = [nodeData EXCEPT !.wantCompression = ~@]
    /\ UNCHANGED <<packetData, pc, loc, threadShuttingDown, server, cyc, call, wire,
                   thread>>
    /\ UNCHANGED <<tree, totals>>

WantsEncode == PackEncodeUpTo(MaxRetries)

\* the two halves of an iteration as steps, on a session whose client
\* changes its wants during a call
WantsNext ==
    \/ InitialLoadCompletes
    \/ ProcessBegin
    \/ ProcessEnd
    \/ ProcessReturn
    \/ DistributorEnter
    \/ DistributorFormat
    \/ DistributorRestart
    \/ DistributorLoop
    \/ WantsEncode
    \/ PackWrite
    \/ DistributorSpecial
    \/ DistributorSendSpecial
    \/ DistributorFinish
    \/ WantsQuery

WantsSpec == Init /\ [][WantsNext]_vars

\* ------------------------------- one call of handlePacketSend, step by step
\* OctreeQueryNode.h line 146 declares _isShuttingDown as a plain bool and
\* line 101 reads it with no lock; the send thread polls it at lines 126,
\* 153 and 222 of OctreeSendThread.cpp and calls writeDatagram at lines 186,
\* 198, 205 or 224.  Here one call is taken in the steps between which the
\* other thread can run, so NodeShutdown may fall between a poll and the
\* write that follows it.

\* the bytes a call site may have put into the packet before the call
SendPayloads == {<<>>, <<1>>, <<1, 2>>}

\* a call site of packetDistributor (lines 284, 325, 476, 498) reaches
\* handlePacketSend with the packet and the stats as the loop left them
SendBegin ==
    /\ pc = "idle"
    /\ nodeData.sequenceNumber < MaxSequence
    /\ nodeData.duplicatePacketCount < MaxDuplicates
    /\ \E data \in SendPayloads, stats \in BOOLEAN :
         nodeData' = [(IF data = <<>> THEN nodeData
                       ELSE writeToPacket(nodeData, data))
                      EXCEPT !.statsReady = stats]
    /\ wire' = [wire EXCEPT !.unsent = Content(nodeData'.octreePacket)]
    /\ pc' = "sendEntry"
    /\ call' = NoCall
    /\ UNCHANGED <<packetData, loc, threadShuttingDown, server, cyc, queries,
                   thread, tree, totals>>

\* lines 126-142: the poll at the entry, then the duplicate suppression
SendEntry ==
    /\ pc = "sendEntry"
    /\ IF nodeData.isShuttingDown
       THEN /\ pc' = "sendDone"
            /\ call' = CallRecord("send", nodeData, NothingSent(nodeData, FALSE))
            /\ UNCHANGED nodeData
       ELSE LET s == shouldSuppressDuplicatePacket(nodeData)
            IN IF s.suppress
               THEN /\ nodeData' = resetOctreePacket(s.nd)
                    /\ pc' = "sendDone"
                    /\ call' = CallRecord("send", nodeData,
                                   NothingSent(resetOctreePacket(s.nd), TRUE))
               ELSE /\ nodeData' = s.nd
                    /\ pc' = "sendBranch"
                    /\ UNCHANGED call
    /\ UNCHANGED <<packetData, loc, threadShuttingDown, server, cyc, wire,
                   queries, thread, tree, totals>>

\* lines 153 and 222: the polls that choose between the stats branch, the
\* plain packet and nothing at all
SendBranch ==
    /\ pc = "sendBranch"
    /\ LET stats == nodeData.statsReady /\ ~nodeData.isShuttingDown
           waiting == nodeData.octreePacketWaiting /\ ~nodeData.isShuttingDown
       IN IF stats \/ waiting
          THEN /\ pc' = "sendWrite"
               /\ UNCHANGED call
          ELSE /\ pc' = "sendDone"
               /\ call' = CallRecord("send", nodeData,
                              NothingSent(nodeData, FALSE))
    /\ UNCHANGED <<nodeData, packetData, loc, threadShuttingDown, server, cyc,
                   wire, queries, thread, tree, totals>>

\* lines 160-247: the writeDatagram calls of the branch chosen at lines 153
\* and 222, then the accounting; the branch was chosen with the flag clear,
\* markAsSent, incrementSequenceNumber and resetOctreePacket act on the node
\* as it is now.  The record of the call is made here, so call.down is the
\* flag at the moment of the write.
SendWrite ==
    /\ pc = "sendWrite"
    /\ LET polled == [nodeData EXCEPT !.isShuttingDown = FALSE]
           r == SendWaiting(polled)
           n2 == IF nodeData.statsReady THEN markAsSent(nodeData) ELSE nodeData
           after == [r EXCEPT !.nd = AfterPacketSent(n2)]
       IN /\ nodeData' = after.nd
          /\ call' = CallRecord("send", nodeData, after)
          /\ wire' = WireAfter(wire, nodeData, after)
    /\ pc' = "sendDone"
    /\ UNCHANGED <<packetData, loc, threadShuttingDown, server, cyc, queries,
                   thread, tree, totals>>

\* line 249: the call returns to its call site
SendReturn ==
    /\ pc = "sendDone"
    /\ pc' = "idle"
    /\ UNCHANGED <<nodeData, packetData, loc, threadShuttingDown, server, cyc,
                   call, wire, queries, thread, tree, totals>>

SendNext ==
    \/ SendBegin
    \/ SendEntry
    \/ SendBranch
    \/ SendWrite
    \/ SendReturn
    \/ NodeShutdown

SendSpec == Init /\ [][SendNext]_vars

\* ------------------------------------------ the encoder left to itself
\* lines 365-525: one iteration of the packing loop, with an encoder that may
\* report DIDNT_FIT with nothing written as often as it likes; the history
\* counts such reports up to MaxRetries, extraPackingAttempts is followed
\* up to one past the limit it is compared with at line 491, and the count
\* of suppressed duplicates up to MaxDuplicates
LoopIterate ==
    /\ pc = "iterate"
    /\ pc' = "loop"
    /\ IF nodeData.nodeBag # {}
       THEN \E subTree \in nodeData.nodeBag, n \in 0..MaxEncodeBytes,
               reason \in StopReasons, inflate \in 0..MaxInflate :
            \E residual \in SUBSET Children(subTree) :
               /\ n <= packetData.targetSize - Len(packetData.bytes)
               /\ n > 0 => reason \in {"UNKNOWN", "DIDNT_FIT"}
               /\ inflate = 0 \/ (packetData.compressed /\ n > 0)
               /\ LET e == Encoded(World, subTree, n, reason, inflate, residual)
                      r == PackAndSend(e, LastNodeDidntFit(e.pd, n, reason))
                  IN Becomes([r EXCEPT
                         !.cyc = [@ EXCEPT !.retries = Min(@, MaxRetries)],
                         !.nd = [@ EXCEPT !.duplicatePacketCount =
                             Min(@, MaxDuplicates)],
                         !.loc = [@ EXCEPT !.extraPackingAttempts =
                             Min(@, REASONABLE_NUMBER_OF_PACKING_ATTEMPTS + 1)]])
       ELSE Becomes(PackAndSend(
                [World EXCEPT !.loc = [@ EXCEPT !.somethingToSend = FALSE]], FALSE))
    /\ UNCHANGED <<threadShuttingDown, server, queries, thread, tree, totals>>

\* the steps of the send thread up to its first pacing sleep
LoopStep ==
    \/ ProcessBegin
    \/ ProcessEnd
    \/ DistributorEnter
    \/ DistributorFormat
    \/ DistributorRestart
    \/ DistributorLoop
    \/ LoopIterate
    \/ DistributorSpecial
    \/ DistributorSendSpecial
    \/ DistributorFinish

LoopNext ==
    \/ LoopStep
    \/ InitialLoadCompletes

\* the lines of the cycle at which the thread has a step to take
LoopLines ==
    {"idle", "distribute", "format", "restart", "loop", "iterate", "special",
     "sendSpecial", "finish", "sleep"}

\* the thread leaves the line it is at; at every line of LoopLines a step of
\* LoopStep is enabled, and each of them changes pc
LoopAdvance ==
    /\ pc \in LoopLines
    /\ pc' \in (LoopLines \cup {"sleeping", "stopped"}) \ {pc}

\* the first cycle of a thread that is scheduled whenever it can run: it
\* does not stay at a line forever
LoopSpec == Init /\ [][LoopNext]_vars /\ WF_pc(LoopAdvance)

\* ------------------------------------------- the client's view in motion
\* the number of view updates a client sends
MaxMoves == 2

\* an inbound query packet that moves the camera or changes the LOD; the
\* thread picks both up at line 86
ViewQuery ==
    /\ BetweenCycles
    /\ queries < MaxMoves
    /\ queries' = queries + 1
    /\ \/ nodeData' = [nodeData EXCEPT !.camera = 1 - @]
       \/ nodeData' = [nodeData EXCEPT !.boundaryLevelAdjust = 1 - @]
    /\ UNCHANGED <<packetData, pc, loc, threadShuttingDown, server, cyc, call, wire,
                   thread, tree, totals>>

\* the send thread on a session whose formats stay as they are and whose
\* view changes
ViewNext ==
    \/ ViewQuery
    \/ InitialLoadCompletes
    \/ ProcessBegin
    \/ ProcessEnd
    \/ ProcessReturn
    \/ DistributorEnter
    \/ DistributorFormat
    \/ DistributorRestart
    \/ DistributorLoop
    \/ DistributorIterate
    \/ DistributorSpecial
    \/ DistributorSendSpecial
    \/ DistributorFinish

ViewSpec == Init /\ [][ViewNext]_vars

\* ------------------------------------------------ the pacing on its own
\* the value an int takes from a wider unsigned value (line 99)
Narrow(x) ==
    LET m == x % (2 ^ IntBits)
    IN IF m >= 2 ^ (IntBits - 1) THEN m - 2 ^ IntBits ELSE m
MaxInt == 2 ^ (IntBits - 1) - 1
MinInt == -(2 ^ (IntBits - 1))

\* lines 99-108: the arguments usleep may get after a cycle that took wall
\* time e; a subtraction that overflows int has no defined result
usecToSleep(e) ==
    LET elapsed == Narrow(e)
        exact == OCTREE_SEND_INTERVAL_USECS - elapsed
        results == IF exact \in MinInt..MaxInt THEN {exact} ELSE MinInt..MaxInt
    IN {IF d > 0 THEN d ELSE MIN_USEC_TO_SLEEP : d \in results}

\* line 97 reached after a cycle of any wall time, by a thread that is or is
\* not still running
PacingInit ==
    /\ InitWith({20}, ServerCaps)
    /\ pc = "sleep"
    /\ \E e \in 0..MaxElapsed, stop \in BOOLEAN :
         thread = [NewThread EXCEPT !.stopThread = stop,
                                    !.run = [NoRun EXCEPT !.elapsed = e]]

\* lines 92-109 with the duration of the sleep
Pace ==
    /\ pc = "sleep"
    /\ ~threadShuttingDown
    /\ pc' = "sleeping"
    /\ IF thread.stopThread
       THEN UNCHANGED thread
       ELSE \E u \in usecToSleep(thread.run.elapsed) :
               thread' = [thread EXCEPT !.run = [@ EXCEPT !.slept = TRUE, !.usec = u]]
    /\ UNCHANGED <<nodeData, packetData, loc, threadShuttingDown, server, cyc, call,
                   wire, queries>>
    /\ UNCHANGED <<tree, totals>>

PacingNext == Pace \/ ProcessReturn

PacingSpec == PacingInit /\ [][PacingNext]_vars

\* ------------------------------------------------ the budget on its own
\* lines 359-360 evaluated for every client rate and server cap in range
BudgetInit ==
    /\ InitWith(0..MaxBudgetPPS, 0..MaxServerCap)
    /\ pc = "idle"
    /\ thread = NewThread

ComputeBudget ==
    /\ pc = "idle"
    /\ pc' = "loop"
    /\ loc' = [loc EXCEPT !.maxPacketsPerInterval =
                   maxPacketsPerInterval(nodeData, server)]
    /\ UNCHANGED <<nodeData, packetData, threadShuttingDown, server, cyc, call,
                   wire, queries, thread>>
    /\ UNCHANGED <<tree, totals>>

BudgetNext == ComputeBudget

BudgetSpec == BudgetInit /\ [][BudgetNext]_vars

\* ------------------------------------- the tree and its lock on their own
\* the number of changes a structural writer makes to the tree
MaxTreeChanges == 3

\* an access of the send thread to the tree at a line of packetDistributor,
\* with what the lock looked like at that moment
Access(line) ==
    [line |-> line, locked |-> tree.readLocked, writing |-> tree.writeLocked]

\* the accesses of packetDistributor to the tree, one after the other, on a
\* session whose bag is empty at entry
TreeInit ==
    /\ InitWith(ClientPPS, ServerCaps)
    /\ pc = "restart"
    /\ thread = NewThread

\* line 317: getRoot()->getLastChanged()
ReadRootStamp ==
    /\ pc = "restart"
    /\ pc' = "sceneStarted"
    /\ tree' = [tree EXCEPT !.access = Access(317)]
    /\ UNCHANGED <<nodeData, packetData, loc, threadShuttingDown, server, cyc,
                   call, wire, queries, thread, totals>>

\* line 337: getRoot() handed to stats.sceneStarted
ReadRootForStats ==
    /\ pc = "sceneStarted"
    /\ pc' = "insertRoot"
    /\ nodeData' = sceneStarted(nodeData)
    /\ tree' = [tree EXCEPT !.access = Access(337)]
    /\ UNCHANGED <<packetData, loc, threadShuttingDown, server, cyc, call, wire,
                   queries, thread, totals>>

\* line 346: getRoot() put into the bag
ReadRootForBag ==
    /\ pc = "insertRoot"
    /\ pc' = "extract"
    /\ nodeData' = [nodeData EXCEPT !.nodeBag = insertRoot(@)]
    /\ loc' = [loc EXCEPT !.somethingToSend = TRUE]
    /\ tree' = [tree EXCEPT !.access = Access(346)]
    /\ UNCHANGED <<packetData, threadShuttingDown, server, cyc, call, wire,
                   queries, thread, totals>>

\* lines 373-374: the next element leaves the bag and is held in the local
\* subTree; lines 450-454 when the bag is empty
ExtractSubTree ==
    /\ pc = "extract"
    /\ IF nodeData.nodeBag = {}
       THEN /\ pc' = "packAndSend"
            /\ loc' = [loc EXCEPT !.somethingToSend = FALSE]
            /\ UNCHANGED <<nodeData, tree>>
       ELSE /\ pc' = "lockForRead"
            /\ \E subTree \in nodeData.nodeBag :
                 /\ nodeData' = [nodeData EXCEPT !.nodeBag = @ \ {subTree}]
                 /\ tree' = [tree EXCEPT !.subTree = subTree, !.deleted = FALSE]
            /\ UNCHANGED loc
    /\ UNCHANGED <<packetData, threadShuttingDown, server, cyc, call, wire,
                   queries, thread, totals>>

\* line 418: lockForRead() returns once no writer holds the lock
LockForRead ==
    /\ pc = "lockForRead"
    /\ ~tree.writeLocked
    /\ pc' = "encode"
    /\ tree' = [tree EXCEPT !.readLocked = TRUE]
    /\ UNCHANGED <<nodeData, packetData, loc, threadShuttingDown, server, cyc,
                   call, wire, queries, thread, totals>>

\* line 423: encodeTreeBitstream on subTree, which puts children that are to
\* be visited into the bag; what a call on a deleted element puts there is
\* not defined
EncodeLocked ==
    /\ pc = "encode"
    /\ pc' = "unlock"
    /\ \E residual \in SUBSET (IF tree.deleted THEN Elements
                                ELSE Children(tree.subTree) \ tree.gone) :
         nodeData' = [nodeData EXCEPT !.nodeBag = @ \cup residual]
    /\ tree' = [tree EXCEPT !.access = Access(423)]
    /\ UNCHANGED <<packetData, loc, threadShuttingDown, server, cyc, call, wire,
                   queries, thread, totals>>

\* a variant of line 449 that leaves the lock to be released later
Unlock_AfterSend ==
    /\ pc = "unlock"
    /\ pc' = "packAndSend"
    /\ tree' = [tree EXCEPT !.subTree = 0]
    /\ UNCHANGED <<nodeData, packetData, loc, threadShuttingDown, server, cyc,
                   call, wire, queries, thread, totals>>

\* line 449: unlock()
Unlock ==
    /\ pc = "unlock"
    /\ pc' = "packAndSend"
    /\ tree' = [tree EXCEPT !.readLocked = FALSE, !.subTree = 0]
    /\ UNCHANGED <<nodeData, packetData, loc, threadShuttingDown, server, cyc,
                   call, wire, queries, thread, totals>>

\* lines 463-516: the segment is written and handlePacketSend is called, as
\* far as the tree is concerned; the loop goes on while there is something
\* to send (line 364)
SendAfterUnlock ==
    /\ pc = "packAndSend"
    /\ pc' = IF loc.somethingToSend THEN "extract" ELSE "specialPacket"
    /\ UNCHANGED <<nodeData, packetData, loc, threadShuttingDown, server, cyc,
                   call, wire, queries, thread, tree, totals>>

\* lines 531-535: the special packet, as far as the tree is concerned
SpecialAfterLoop ==
    /\ pc = "specialPacket"
    /\ pc' = "pacing"
    /\ UNCHANGED <<nodeData, packetData, loc, threadShuttingDown, server, cyc,
                   call, wire, queries, thread, tree, totals>>

\* lines 97-109: the pacing sleep of process(); the next call finds the bag
\* empty again
PacingAfterCall ==
    /\ pc = "pacing"
    /\ pc' = "restart"
    /\ UNCHANGED <<nodeData, packetData, loc, threadShuttingDown, server, cyc,
                   call, wire, queries, thread, tree, totals>>

\* Octree.h line 259: a structural writer takes the lock for writing
WriterLock ==
    /\ ~tree.writeLocked
    /\ ~tree.readLocked
    /\ tree.lastChanged < MaxTreeChanges
    /\ tree' = [tree EXCEPT !.writeLocked = TRUE]
    /\ UNCHANGED <<nodeData, packetData, pc, loc, threadShuttingDown, server, cyc,
                   call, wire, queries, thread, totals>>

\* ... changes the tree, which stamps the root, and unlocks. The change
\* creates and deletes elements below the root; a deleted element leaves the
\* bags it is in, and an element that a send thread holds in subTree at that
\* moment is deleted under its hands
WriterUnlock ==
    /\ tree.writeLocked
    /\ \E gone \in SUBSET (Elements \ {RootElement}) :
         /\ tree' = [tree EXCEPT !.writeLocked = FALSE, !.lastChanged = @ + 1,
                                 !.gone = gone,
                                 !.deleted = @ \/ tree.subTree \in gone]
         /\ nodeData' = [nodeData EXCEPT !.nodeBag = @ \ gone]
    /\ UNCHANGED <<packetData, pc, loc, threadShuttingDown, server, cyc,
                   call, wire, queries, thread, totals>>

TreeNext ==
    \/ ReadRootStamp
    \/ ReadRootForStats
    \/ ReadRootForBag
    \/ ExtractSubTree
    \/ LockForRead
    \/ EncodeLocked
    \/ Unlock
    \/ SendAfterUnlock
    \/ SpecialAfterLoop
    \/ PacingAfterCall
    \/ WriterLock
    \/ WriterUnlock

TreeSpec == TreeInit /\ [][TreeNext]_vars

\* ------------------------------- the static totals of all send threads
\* the number of packets each worker sends
MaxSends == 2
\* the lengths of the packets sent: a header alone, and a full packet
PacketLengths == {PacketHeaderSize, MAX_PACKET_SIZE}

\* two send threads, each in handlePacketSend for its own session
TotalsInit ==
    /\ InitWith({20}, ServerCaps)
    /\ pc = "idle"
    /\ thread = NewThread

\* lines 170, 211 and 230, _totalBytes += getPacketLength(): the static is
\* read ...
LoadTotalBytes(w) ==
    /\ totals.at[w] = "idle"
    /\ totals.sentPackets[w] < MaxSends
    /\ \E len \in PacketLengths :
         totals' = [totals EXCEPT !.at[w] = "bytesLoaded",
                                  !.loaded[w] = totals.totalBytes,
                                  !.length[w] = len]
    /\ UNCHANGED <<nodeData, packetData, pc, loc, threadShuttingDown, server, cyc,
                   call, wire, queries, thread, tree>>

\* ... and the sum is written back
StoreTotalBytes(w) ==
    /\ totals.at[w] = "bytesLoaded"
    /\ totals' = [totals EXCEPT !.at[w] = "bytesStored",
                                !.totalBytes = totals.loaded[w] + totals.length[w],
                                !.sentBytes[w] = @ + totals.length[w]]
    /\ UNCHANGED <<nodeData, packetData, pc, loc, threadShuttingDown, server, cyc,
                   call, wire, queries, thread, tree>>

\* lines 171, 212 and 231, _totalPackets++: the static is read ...
LoadTotalPackets(w) ==
    /\ totals.at[w] = "bytesStored"
    /\ totals' = [totals EXCEPT !.at[w] = "packetsLoaded",
                                !.loaded[w] = totals.totalPackets]
    /\ UNCHANGED <<nodeData, packetData, pc, loc, threadShuttingDown, server, cyc,
                   call, wire, queries, thread, tree>>

\* ... and written back one larger
StoreTotalPackets(w) ==
    /\ totals.at[w] = "packetsLoaded"
    /\ totals' = [totals EXCEPT !.at[w] = "idle",
                                !.totalPackets = totals.loaded[w] + 1,
                                !.sentPackets[w] = @ + 1]
    /\ UNCHANGED <<nodeData, packetData, pc, loc, threadShuttingDown, server, cyc,
                   call, wire, queries, thread, tree>>

TotalsNext ==
    \/ \E w \in Workers : LoadTotalBytes(w)
    \/ \E w \in Workers : StoreTotalBytes(w)
    \/ \E w \in Workers : LoadTotalPackets(w)
    \/ \E w \in Workers : StoreTotalPackets(w)

TotalsSpec == TotalsInit /\ [][TotalsNext]_vars

\* ------------------------------------------------------------ properties
\* a packetDistributor call that went past its entry check
InCall == cyc.entered /\ ~cyc.downAtEntry
\* ... and past the scene restart, so that the budget has been computed
PastRestart ==
    /\ InCall
    /\ \/ pc \in {"loop", "iterate", "special", "sendSpecial", "finish"}
       \/ (pc = "sleep" /\ cyc.done)
\* ... and back in process(), before the locals go out of scope
CallDone == InCall /\ pc = "sleep" /\ cyc.done
\* a handlePacketSend call has been made in this cycle
Called == call.site # "none"
Transmitted == call.kinds # <<>>

\* C1: in one packetDistributor call the datagrams written through
\* handlePacketSend (flushes and sends, a separate stats packet counted)
\* number at most the per-interval budget, and at most one special packet is
\* sent on top.
C1_WithinBudget ==
    PastRestart =>
        /\ cyc.wireUnits <= loc.maxPacketsPerInterval
        /\ cyc.special <= 1

\* C2: each transmitted octree payload carries the sequence number of the
\* previously transmitted one plus one; a call that transmits nothing consumes
\* no number and a call that sends the stats separately consumes exactly one.
C2_ConsecutiveSequence ==
    /\ wire.prevSeq >= 0 => wire.lastSeq = wire.prevSeq + 1
    /\ wire.lastSeq >= 0 => nodeData.sequenceNumber = wire.lastSeq + 1
    /\ Called => call.seqAfter = call.seqBefore + (IF Transmitted THEN 1 ELSE 0)
    /\ (Called /\ Transmitted) => wire.lastSeq = call.seqBefore
C2_Witness ==
    /\ Called
    /\ call.kinds = <<"stats", "octree">>
    /\ wire.prevSeq = 0
    /\ wire.lastSeq = 1

\* C3: on a live session, handlePacketSend called with a packet equal to the
\* last one while the view is not changing writes no datagram and adds one to
\* the duplicate counter; called with a waiting packet that differs, it
\* writes the packet and sets the counter to 0.
C3_DuplicateSuppression ==
    (Called /\ ~call.down) =>
        /\ (call.dup /\ ~call.changing) =>
              /\ ~Transmitted
              /\ call.ret = 0
              /\ call.suppressed
              /\ call.countAfter = call.countBefore + 1
        /\ (~call.dup /\ call.waiting) =>
              /\ Transmitted
              /\ call.kinds[Len(call.kinds)] \in {"octree", "stats+octree"}
              /\ call.countAfter = 0
        /\ ~call.suppressed => call.countAfter = 0
C3_Witness ==
    /\ Called
    /\ ~call.down
    /\ call.dup
    /\ ~call.changing
    /\ call.countBefore = 1
    /\ call.countAfter = 2
    /\ ~Transmitted

\* C4 as stated: a call on a session with an empty bag and an unchanged view
\* makes no encode call and writes no datagram.
C4_NothingDone ==
    (CallDone /\ cyc.bagAtEntry = {} /\ ~loc.viewFrustumChanged) =>
        (cyc.encodeCalls = 0 /\ cyc.wireUnits = 0)
\* C4: a call on a session with an empty bag and an unchanged view restarts
\* the scene: the bag holds the root before the loop, and the loop makes an
\* encode call unless the session shuts down or the restart used the budget.
C4_EmptyBagRestarts ==
    (PastRestart /\ cyc.bagAtEntry = {} /\ ~loc.viewFrustumChanged) =>
        /\ cyc.restarted
        /\ call.site # "none"
        /\ (cyc.encodeCalls = 0 /\ pc \in {"loop", "iterate"}) =>
              nodeData.nodeBag = {RootElement}
        /\ cyc.done =>
              \/ cyc.encodeCalls >= 1
              \/ nodeData.isShuttingDown
              \/ loc.packetsSentThisInterval >= loc.maxPacketsPerInterval
C4_Witness ==
    /\ CallDone
    /\ cyc.bagAtEntry = {}
    /\ ~loc.viewFrustumChanged
    /\ cyc.encodeCalls >= 1
    /\ cyc.wireUnits >= 1

\* C5: on a live session, a call that ends with an empty bag has set
\* LastKnownViewFrustum to CurrentViewFrustum exactly once, marked the view
\* sent and cleared the coverage map; a call that ends with a non-empty bag
\* has left LastKnownViewFrustum as it found it.
C5_SceneCompletion ==
    CallDone =>
        /\ (nodeData.nodeBag = {} /\ ~nodeData.isShuttingDown) =>
              /\ nodeData.lastKnownViewFrustum = nodeData.currentViewFrustum
              /\ nodeData.viewSent
              /\ ~nodeData.map
              /\ cyc.lastKnownUpdates = 1
        /\ nodeData.nodeBag # {} =>
              /\ nodeData.lastKnownViewFrustum = cyc.lastKnownAtEntry
              /\ cyc.lastKnownUpdates = 0
C5_Witness ==
    /\ CallDone
    /\ nodeData.nodeBag = {}
    /\ ~nodeData.isShuttingDown
    /\ cyc.encodeCalls >= 1
    /\ cyc.lastKnownAtEntry # nodeData.currentViewFrustum
    /\ nodeData.lastKnownViewFrustum = nodeData.currentViewFrustum
    /\ cyc.lastKnownUpdates = 1

\* C6: the flags a packet with content is locked with change only in a step
\* in which handlePacketSend took that packet (wrote or suppressed it) and
\* reset it.
C6_LockedFlagsKept ==
    [][(/\ nodeData.octreePacketWaiting
        /\ \/ nodeData'.currentPacketIsColor # nodeData.currentPacketIsColor
           \/ nodeData'.currentPacketIsCompressed # nodeData.currentPacketIsCompressed)
       => (/\ call' # call
           /\ call'.waiting
           /\ call'.kinds # <<>> \/ call'.suppressed)]_vars
C6_Witness ==
    /\ Called
    /\ call.site = "format"
    /\ call.waiting
    /\ Transmitted
    /\ nodeData.currentPacketIsColor = nodeData.wantColor
    /\ nodeData.currentPacketIsCompressed = nodeData.wantCompression
    /\ nodeData.octreePacket = <<>>

\* C7: handlePacketSend called on a session that is shutting down returns 0,
\* writes nothing and leaves the sequence number, the packet and the
\* duplicate counter alone; packetDistributor called on such a session returns
\* 0 without a flush, a restart, an encode call or a special packet, and
\* leaves the bag alone.
C7_ShutdownNoOp ==
    /\ (Called /\ call.down) =>
          /\ call.ret = 0
          /\ ~Transmitted
          /\ ~call.suppressed
          /\ call.truePackets = 0
          /\ call.trueBytes = 0
          /\ call.seqAfter = call.seqBefore
          /\ call.countAfter = call.countBefore
          /\ call.lengthAfter = call.length
    /\ (cyc.entered /\ cyc.downAtEntry) =>
          /\ pc = "sleep"
          /\ cyc.done
          /\ ~Called
          /\ ~cyc.flushedFirst
          /\ ~cyc.restarted
          /\ cyc.encodeCalls = 0
          /\ cyc.wireUnits = 0
          /\ cyc.special = 0
          /\ loc.truePacketsSent = 0
          /\ nodeData.nodeBag = cyc.bagAtEntry
C7_Witness ==
    /\ cyc.entered
    /\ cyc.downAtEntry
    /\ nodeData.octreePacketWaiting
    /\ nodeData.nodeBag = {}
    /\ wire.lastSeq = 0

\* C8: on a session that stays uncompressed with an unchanged view, every
\* packet handed to handlePacketSend holds exactly the next encoder output
\* that has not been handed over yet; when a node did not fit and the scene
\* still completes in the call, nothing encoded is left over, and the packet
\* sent at the scene end carries the number after that of the packet sent
\* before it.
C8_PayloadsAreEncoderOutput ==
    (queries = 0 /\ ~nodeData.wantCompression) =>
        /\ wire.intact
        /\ (CallDone /\ nodeData.nodeBag = {} /\ ~nodeData.isShuttingDown) =>
              wire.unsent = <<>>
        /\ (CallDone /\ cyc.didntFit /\ nodeData.nodeBag = {} /\ cyc.wireUnits >= 2) =>
              wire.lastSeq = wire.prevSeq + 1
C8_Witness ==
    /\ queries = 0
    /\ ~nodeData.wantCompression
    /\ CallDone
    /\ cyc.didntFit
    /\ nodeData.nodeBag = {}
    /\ cyc.wireUnits = 2
    /\ wire.prevSeq = 0
    /\ wire.lastSeq = 1
    /\ wire.unsent = <<>>
    /\ wire.intact
    /\ call.site = "send"
    /\ call.length > PacketHeaderSize

\* C9 as stated: after an LOD change without a view change the call computes
\* isFullScene = TRUE and starts its loop on a bag that holds the root only,
\* whatever the bag held at entry.
C9_AlwaysReseeded ==
    (PastRestart /\ pc = "loop" /\ cyc.encodeCalls = 0
        /\ cyc.lodAtEntry /\ ~loc.viewFrustumChanged) =>
        /\ loc.isFullScene
        /\ nodeData.nodeBag = {RootElement}
\* C9: after an LOD change without a view change the call computes
\* isFullScene = TRUE; it restarts the scene, and starts its loop on a bag
\* that holds the root only, when the bag was empty at entry, and leaves a bag
\* that was not empty as it was.
C9_ReseededWhenEmpty ==
    (PastRestart /\ pc = "loop" /\ cyc.encodeCalls = 0
        /\ cyc.lodAtEntry /\ ~loc.viewFrustumChanged) =>
        /\ loc.isFullScene
        /\ cyc.bagAtEntry = {} => (cyc.restarted /\ nodeData.nodeBag = {RootElement})
        /\ cyc.bagAtEntry # {} => (~cyc.restarted /\ nodeData.nodeBag = cyc.bagAtEntry)
C9_Witness ==
    /\ PastRestart
    /\ pc = "loop"
    /\ cyc.encodeCalls = 0
    /\ cyc.lodAtEntry
    /\ ~loc.viewFrustumChanged
    /\ cyc.bagAtEntry # {}
    /\ RootElement \notin nodeData.nodeBag
    /\ loc.isFullScene

\* C10 as stated: isFullScene is TRUE exactly when the view has just stopped
\* changing or the LOD has changed.
C10_JustStoppedOrLod ==
    InCall => (loc.isFullScene <=> (cyc.justStoppedAtEntry \/ cyc.lodAtEntry))
\* C10: isFullScene is TRUE exactly when the LOD has changed, or the view has
\* just stopped changing and the call is not one with a changed view for a
\* client in delta mode.
C10_FullScene ==
    InCall =>
        (loc.isFullScene <=>
            \/ cyc.lodAtEntry
            \/ /\ cyc.justStoppedAtEntry
               /\ ~(loc.viewFrustumChanged /\ cyc.wantDeltaAtEntry))
C10_Witness ==
    /\ InCall
    /\ loc.viewFrustumChanged
    /\ cyc.wantDeltaAtEntry
    /\ cyc.justStoppedAtEntry
    /\ ~cyc.lodAtEntry
    /\ ~loc.isFullScene

\* C11 as stated: in a cycle with a changed view for a client in delta mode,
\* with the LOD unchanged and the view not just stopped, isFullScene is FALSE,
\* the loop starts on the bag as the call found it plus the root, and every
\* encode call gets LastKnownViewFrustum as its baseline; in a cycle with an
\* unchanged view, or for a client not in delta mode, no encode call gets a
\* baseline.
C11_EntriesKept ==
    /\ (PastRestart /\ loc.viewFrustumChanged /\ cyc.wantDeltaAtEntry
           /\ ~cyc.lodAtEntry /\ ~cyc.justStoppedAtEntry) =>
          /\ ~loc.isFullScene
          /\ (pc = "loop" /\ cyc.encodeCalls = 0) =>
                nodeData.nodeBag = cyc.bagAtEntry \cup {RootElement}
          /\ cyc.baselines \subseteq {cyc.lastKnownAtEntry}
    /\ (InCall /\ ~(loc.viewFrustumChanged /\ cyc.wantDeltaAtEntry)) =>
          cyc.baselines \subseteq {-1}
\* the entries of the bag that a changed view keeps: a move away from
\* LastKnownViewFrustum drops the entries outside the new view
C11_Kept ==
    IF cyc.lastKnownAtEntry # nodeData.currentViewFrustum
    THEN {e \in cyc.bagAtEntry : isInView(e, nodeData.currentViewFrustum)}
    ELSE cyc.bagAtEntry
\* C11: in a cycle with a changed view for a client in delta mode, with the
\* LOD unchanged and the view not just stopped, isFullScene is FALSE, the loop
\* starts on the root plus the entries the call found, without those outside
\* the new view when the view moved away from LastKnownViewFrustum (a session
\* that shuts down during the call may keep them all), and every
\* encode call gets LastKnownViewFrustum as its baseline; in a cycle with an
\* unchanged view, or for a client not in delta mode, no encode call gets a
\* baseline.
C11_DeltaBaseline ==
    /\ (PastRestart /\ loc.viewFrustumChanged /\ cyc.wantDeltaAtEntry
           /\ ~cyc.lodAtEntry /\ ~cyc.justStoppedAtEntry) =>
          /\ ~loc.isFullScene
          /\ (pc = "loop" /\ cyc.encodeCalls = 0) =>
                \/ nodeData.nodeBag = C11_Kept \cup {RootElement}
                \/ /\ nodeData.isShuttingDown
                   /\ nodeData.nodeBag = cyc.bagAtEntry \cup {RootElement}
          /\ cyc.baselines \subseteq {cyc.lastKnownAtEntry}
          /\ loc.lastViewFrustum = cyc.lastKnownAtEntry
    /\ (InCall /\ ~(loc.viewFrustumChanged /\ cyc.wantDeltaAtEntry)) =>
          /\ cyc.baselines \subseteq {-1}
          /\ pc # "format" => loc.lastViewFrustum = -1
C11_Witness ==
    /\ CallDone
    /\ loc.viewFrustumChanged
    /\ cyc.wantDeltaAtEntry
    /\ ~cyc.lodAtEntry
    /\ ~cyc.justStoppedAtEntry
    /\ cyc.bagAtEntry # {}
    /\ cyc.baselines = {cyc.lastKnownAtEntry}

\* C12: a call restarts the scene exactly when the view changed or it found
\* the bag empty; after a restart the loop starts on a bag that holds the
\* root, and on a bag that holds the root only when isFullScene is TRUE.
C12_RootReseeded ==
    PastRestart =>
        /\ cyc.restarted <=> (loc.viewFrustumChanged \/ cyc.bagAtEntry = {})
        /\ (cyc.restarted /\ pc = "loop" /\ cyc.encodeCalls = 0) =>
              /\ RootElement \in nodeData.nodeBag
              /\ loc.isFullScene => nodeData.nodeBag = {RootElement}
C12_Witness ==
    /\ PastRestart
    /\ cyc.restarted
    /\ pc = "loop"
    /\ cyc.encodeCalls = 0
    /\ ~loc.isFullScene
    /\ RootElement \notin cyc.bagAtEntry
    /\ nodeData.nodeBag = cyc.bagAtEntry \cup {RootElement}
    /\ cyc.bagAtEntry # {}

\* the budget has been computed from the client's rate and the server's cap
BudgetComputed == pc = "loop" /\ ~cyc.entered
\* the server's cap as packets per second
serverCapPPS == server.packetsPerClientPerInterval * INTERVALS_PER_SECOND

\* C13 as stated: for every client rate >= 0 and every server cap the budget
\* is min(clientRequestedPPS, serverCapPPS) / intervalsPerSecond with a floor
\* of 1.
C13_FloorOfOne ==
    BudgetComputed =>
        loc.maxPacketsPerInterval =
            Max(1, Min(nodeData.maxOctreePPS, serverCapPPS) \div INTERVALS_PER_SECOND)
\* C13: the budget is the client's rate per interval with a floor of 1, capped
\* by the server's packets per interval; the floor does not apply to the cap.
\* For a cap of at least 1 that is min(clientRequestedPPS, serverCapPPS) /
\* intervalsPerSecond with a floor of 1 (1 for a rate of 20 and a cap of 1000
\* per second, 16 per interval), for a cap of 0 it is 0.
C13_FloorBelowCap ==
    BudgetComputed =>
        LET budget == loc.maxPacketsPerInterval
            cap == server.packetsPerClientPerInterval
            pps == nodeData.maxOctreePPS
        IN /\ budget <= cap
           /\ cap >= 1 =>
                 /\ budget >= 1
                 /\ budget = Max(1, Min(pps, serverCapPPS) \div INTERVALS_PER_SECOND)
           /\ cap = 0 => budget = 0
           /\ (pps = 20 /\ cap = 1000 \div INTERVALS_PER_SECOND) => budget = 1
           /\ (pps >= 2 * INTERVALS_PER_SECOND /\ cap >= 2) => budget >= 2
C13_Witness ==
    /\ BudgetComputed
    /\ nodeData.maxOctreePPS = 0
    /\ server.packetsPerClientPerInterval = 1000 \div INTERVALS_PER_SECOND
    /\ loc.maxPacketsPerInterval = 1

\* ------------------------------------------------ properties of process()
\* the worker has stopped: process() returned false, or the run loop found
\* isStillRunning() FALSE
WorkerStopped == pc = "stopped" \/ (pc = "idle" /\ thread.stopThread)

\* C14 as stated: a process() call that starts after setIsShuttingDown returns
\* false without working and without sleeping, and a call that was running
\* when the flag was set does not sleep either.
C14_NoSleepOnceSet ==
    /\ (pc = "stopped" /\ thread.run.exit = 66) =>
          (~thread.run.worked /\ ~thread.run.slept)
    /\ threadShuttingDown => ~(pc = "sleeping" /\ thread.run.slept)
\* C14: a process() call that starts after setIsShuttingDown returns false at
\* line 66 without a view update, a packetDistributor call or a sleep; a call
\* that reaches line 92 after the flag was set returns false without sleeping;
\* a call that is past line 92 when the flag is set returns isStillRunning()
\* after its sleep; a stopped worker stays stopped.
C14_FlagStopsWorker ==
    /\ []((pc = "stopped" /\ thread.run.exit = 66) =>
            (threadShuttingDown /\ ~thread.run.worked /\ ~thread.run.slept))
    /\ []((pc = "stopped" /\ thread.run.exit = 93) =>
            (threadShuttingDown /\ ~thread.run.slept))
    /\ [][(pc = "idle" /\ threadShuttingDown /\ pc' # pc) =>
            (/\ pc' = "stopped"
             /\ thread'.run.exit = 66
             /\ UNCHANGED <<nodeData, cyc, call, wire>>)]_vars
    /\ [][(pc = "sleep" /\ threadShuttingDown /\ pc' # pc) =>
            (pc' = "stopped" /\ thread'.run.exit = 93)]_vars
    /\ [][(pc = "sleeping" /\ pc' # pc) =>
            (pc' = IF thread.stopThread THEN "stopped" ELSE "idle")]_vars
    /\ [][pc = "stopped" => pc' = "stopped"]_vars
C14_Witness ==
    /\ pc = "stopped"
    /\ thread.run.exit = 93
    /\ thread.run.worked
    /\ ~thread.run.slept
    /\ wire.lastSeq >= 0

\* C15: a process() call that finds the tree's initial load incomplete makes
\* no view update, no packetDistributor call and writes no datagram; unless
\* the thread is shut down or terminated meanwhile it then sleeps, and it
\* returns isStillRunning().
C15_LoadIncompletePaces ==
    /\ [][(/\ pc = "idle"
           /\ ~server.initialLoadComplete
           /\ ~threadShuttingDown
           /\ thread.assignment
           /\ pc' # pc) =>
            (/\ pc' = "sleep"
             /\ ~thread'.run.worked
             /\ UNCHANGED <<nodeData, packetData, loc, cyc, call, wire>>)]_vars
    /\ []((pc \in {"sleep", "sleeping"} /\ ~thread.run.worked) =>
            (~cyc.entered /\ call = NoCall))
    /\ [][(pc = "sleep" /\ ~thread.run.worked /\ ~threadShuttingDown /\ pc' # pc) =>
            (/\ pc' = "sleeping"
             /\ thread'.run.slept = ~thread.stopThread
             /\ UNCHANGED <<nodeData, wire>>)]_vars
    /\ [][(pc = "sleeping" /\ ~thread.run.worked /\ pc' # pc) =>
            (/\ pc' = IF thread.stopThread THEN "stopped" ELSE "idle"
             /\ UNCHANGED <<nodeData, wire>>)]_vars
C15_Witness ==
    /\ pc = "sleeping"
    /\ ~server.initialLoadComplete
    /\ ~thread.run.worked
    /\ thread.run.slept
    /\ ~thread.stopThread
    /\ thread.nodeLinked
    /\ ~nodeData.isShuttingDown
    /\ wire.lastSeq = -1

\* C16: a still-running worker that reaches the end of a cycle sleeps for
\* max(MIN_USEC_TO_SLEEP, OCTREE_SEND_INTERVAL_USECS - elapsed), for every
\* wall time elapsed of the cycle.
C16_SleepsTheRest ==
    (pc = "sleeping" /\ ~thread.stopThread) =>
        /\ thread.run.slept
        /\ thread.run.usec =
              Max(MIN_USEC_TO_SLEEP, OCTREE_SEND_INTERVAL_USECS - thread.run.elapsed)

SessionInvalid == ~thread.nodeLinked
\* C18: once the client node or its session data is missing, the worker
\* stops.
C18_WindsDown == SessionInvalid ~> WorkerStopped

\* a handlePacketSend call that got past the shutdown check of line 126 and
\* the duplicate suppression of line 139 with a statistics message ready
StatsCall == call.site # "none" /\ call.stats /\ ~call.down /\ ~call.suppressed
\* C19: a handlePacketSend call with a statistics message ready and the
\* packet not suppressed writes one datagram, the statistics ahead of the
\* packet, when their combined size is at most MAX_PACKET_SIZE, and two
\* datagrams, the statistics first, when it is larger; the statistics are
\* marked as sent either way.
C19_PiggybackWhenFits ==
    StatsCall =>
        /\ call.kinds = IF call.length + StatsMessageLength <= MAX_PACKET_SIZE
                        THEN <<"stats+octree">>
                        ELSE <<"stats", "octree">>
        /\ ~call.statsAfter

\* C20: a handlePacketSend call returns the number of datagrams it wrote,
\* adds the same number to truePacketsSent, and adds the bytes of those
\* datagrams to trueBytesSent.
C20_TrueCounts ==
    call.site # "none" =>
        /\ call.ret = Len(call.kinds)
        /\ call.ret \in 0..2
        /\ call.truePackets = call.ret
        /\ call.trueBytes = call.bytes

\* a handlePacketSend call that has nothing to transmit: the session is
\* shutting down (line 126), the packet repeats the last one while the view is
\* not changing (line 139), or no packet waits and no statistics are ready
NothingToTransmit ==
    \/ call.down
    \/ (call.dup /\ ~call.changing)
    \/ (~call.waiting /\ ~call.stats)
\* C21: a handlePacketSend call with nothing to transmit writes no datagram,
\* returns 0 and leaves the sequence number, truePacketsSent and trueBytesSent
\* as they were; a suppressed duplicate leaves the packet reset to its header.
C21_NothingTransmitted ==
    (call.site # "none" /\ NothingToTransmit) =>
        /\ call.kinds = <<>>
        /\ call.ret = 0
        /\ call.seqAfter = call.seqBefore
        /\ call.truePackets = 0
        /\ call.trueBytes = 0
        /\ (~call.down /\ call.dup /\ ~call.changing) =>
              (call.suppressed /\ call.lengthAfter = PacketHeaderSize)
C21_Witness ==
    /\ call.site = "format"
    /\ call.suppressed
    /\ call.waiting
    /\ call.length > PacketHeaderSize
    /\ call.lengthAfter = PacketHeaderSize
    /\ call.ret = 0
    /\ nodeData.octreePacket = <<>>

\* C22: every access of the send thread to the tree in packetDistributor (the
\* reads of the root at lines 317, 337 and 346, the encode call at line 423)
\* is made while the thread holds the read lock, and so while no writer holds
\* the lock.
C22_TreeAccessUnderLock ==
    tree.access.line # 0 => (tree.access.locked /\ ~tree.access.writing)

\* what all workers together have sent: f[1] + ... + f[n]
RECURSIVE SumOfWorkers(_, _)
SumOfWorkers(f, n) == IF n = 0 THEN 0 ELSE f[n] + SumOfWorkers(f, n - 1)
\* C23: whenever no worker is in the middle of an update, the static totals
\* equal the sums of what the workers have sent: no update of one worker is
\* lost to another.
C23_TotalsAreSums ==
    (\A w \in Workers : totals.at[w] = "idle") =>
        /\ totals.totalPackets = SumOfWorkers(totals.sentPackets, NumWorkers)
        /\ totals.totalBytes = SumOfWorkers(totals.sentBytes, NumWorkers)

\* C24 as stated: after an encode call lastNodeDidntFit is set only when no
\* byte was written, the assembler has content and the stop reason is
\* DIDNT_FIT, whatever the target size.
C24_OnlyWithContent ==
    (pc = "pack" /\ loc.iteration.lastNodeDidntFit) =>
        /\ loc.iteration.bytesWritten = 0
        /\ hasContent(packetData)
        /\ loc.iteration.stopReason = "DIDNT_FIT"
\* C24: after an encode call lastNodeDidntFit is set exactly when no byte was
\* written and the stop reason is DIDNT_FIT and, where the target size is the
\* full MAX_OCTREE_PACKET_DATA_SIZE, the assembler has content; with a
\* smaller target size (packing more into a compressed packet) an empty
\* assembler sets it too. No other stop reason sets it.
C24_DidntFit ==
    (pc = "pack" /\ loc.iteration.encoded) =>
        (loc.iteration.lastNodeDidntFit <=>
            /\ loc.iteration.bytesWritten = 0
            /\ loc.iteration.stopReason = "DIDNT_FIT"
            /\ (packetData.targetSize = MAX_OCTREE_PACKET_DATA_SIZE
                   => hasContent(packetData)))
C24_Witness ==
    /\ pc = "pack"
    /\ loc.iteration.lastNodeDidntFit
    /\ ~hasContent(packetData)
    /\ packetData.targetSize # MAX_OCTREE_PACKET_DATA_SIZE
    /\ loc.iteration.stopReason = "DIDNT_FIT"

\* an iteration of the packing loop went past line 463: the scene completed
\* or the last node did not fit
SendDecided == pc = "loop" /\ loc.iteration.decided
\* C25 as stated: past line 463 sendNow is true unless the packet is
\* compressed, has MINIMUM_ATTEMPT_MORE_PACKING bytes left and the count of
\* extra packing attempts is below REASONABLE_NUMBER_OF_PACKING_ATTEMPTS.
C25_BelowTheConstant ==
    SendDecided =>
        (loc.iteration.sendNow <=>
            ~(/\ loc.iteration.compressed
              /\ loc.iteration.available >= MINIMUM_ATTEMPT_MORE_PACKING
              /\ loc.iteration.attempts < REASONABLE_NUMBER_OF_PACKING_ATTEMPTS))
\* C25: past line 463 sendNow is true unless the packet is compressed, has
\* MINIMUM_ATTEMPT_MORE_PACKING bytes left and the count of extra packing
\* attempts is at most REASONABLE_NUMBER_OF_PACKING_ATTEMPTS; with sendNow
\* true, and so with every uncompressed packet, handlePacketSend is called in
\* the same iteration.
C25_SendNow ==
    SendDecided =>
        /\ loc.iteration.sendNow <=>
              ~(/\ loc.iteration.compressed
                /\ loc.iteration.available >= MINIMUM_ATTEMPT_MORE_PACKING
                /\ loc.iteration.attempts <= REASONABLE_NUMBER_OF_PACKING_ATTEMPTS)
        /\ ~loc.iteration.compressed => loc.iteration.sendNow
        /\ loc.iteration.sendNow => call.site = "send"
C25_Witness ==
    /\ SendDecided
    /\ ~loc.iteration.sendNow
    /\ loc.iteration.compressed
    /\ loc.iteration.attempts = REASONABLE_NUMBER_OF_PACKING_ATTEMPTS

\* C26: when line 282 finds the packet's locked flags different from the
\* client's wants, the step of lines 282-293 hands a waiting packet to
\* handlePacketSend, leaves the packet empty and locked with the wants, and
\* sets the assembler up anew for the captured compression setting; the
\* packet and the assembler are still so when the first encode call of the
\* cycle starts.
C26_FlushOnFormatChange ==
    /\ [][(/\ pc = "format"
           /\ pc' = "restart"
           /\ ~getCurrentPacketFormatMatches(nodeData)
           /\ ~nodeData.isShuttingDown) =>
            (/\ cyc'.flushedFirst
             /\ nodeData.octreePacketWaiting =>
                   (call'.site = "format" /\ call'.waiting
                      /\ call'.length = getPacketLength(nodeData))
             /\ nodeData'.octreePacket = <<>>
             /\ ~nodeData'.octreePacketWaiting
             /\ getPacketLength(nodeData') = PacketHeaderSize
             /\ nodeData'.currentPacketIsColor = nodeData.wantColor
             /\ nodeData'.currentPacketIsCompressed = nodeData.wantCompression
             /\ packetData' = Retargeted(loc.wantCompression,
                                         nodeData'.octreePacketAvailableBytes))]_vars
    /\ []((pc = "iterate" /\ cyc.encodeCalls = 0 /\ cyc.flushedFirst) =>
            (/\ nodeData.octreePacket = <<>>
             /\ ~nodeData.octreePacketWaiting
             /\ packetData = Retargeted(loc.wantCompression,
                                        nodeData.octreePacketAvailableBytes)))
C26_Witness ==
    /\ pc = "restart"
    /\ cyc.flushedFirst
    /\ call.site = "format"
    /\ call.waiting
    /\ call.kinds # <<>>
    /\ nodeData.octreePacket = <<>>
    /\ packetData = Retargeted(loc.wantCompression,
                               nodeData.octreePacketAvailableBytes)

\* line 303: a view change that drops what has left the view
QualifyingViewChange(w) ==
    w.loc.viewFrustumChanged /\ (moveShouldDump(w.nd) \/ w.nd.lodChanged)
\* the call has just gone through the scene restart of lines 299-348
JustRestarted ==
    pc = "loop" /\ cyc.restarted /\ cyc.encodeCalls = 0 /\ ~nodeData.isShuttingDown
\* ... and the view change it was given was a qualifying one
WasQualifying ==
    /\ loc.viewFrustumChanged
    /\ \/ nodeData.lastKnownViewFrustum # nodeData.currentViewFrustum
       \/ nodeData.lodChanged

\* C27 as stated: a scene restart on a qualifying view change clears the
\* CoverageMap and leaves nothing of the previous VisitBag; any other scene
\* restart leaves the CoverageMap as it was and keeps the VisitBag's contents.
C27_ExactlyOnQualifying ==
    JustRestarted =>
        IF WasQualifying
        THEN ~nodeData.map /\ nodeData.nodeBag = {RootElement}
        ELSE /\ nodeData.map = cyc.mapAtEntry
             /\ nodeData.nodeBag = insertRoot(cyc.bagAtEntry)
\* C27: a scene restart clears the CoverageMap on every view change and on no
\* other restart; it empties the VisitBag when the scene is a full one,
\* otherwise on a qualifying view change it drops from the VisitBag the
\* elements outside the current view, and otherwise it keeps the VisitBag;
\* the root is put into the VisitBag in every case.
C27_MapAndBagAtRestart ==
    [][(pc = "restart" /\ pc' # "restart" /\ needsRestart(World)) =>
         (/\ nodeData'.map = (~loc.viewFrustumChanged /\ nodeData.map)
          /\ nodeData'.nodeBag =
               insertRoot(IF loc.isFullScene THEN {}
                          ELSE IF QualifyingViewChange(World)
                          THEN {e \in nodeData.nodeBag :
                                  isInView(e, nodeData.currentViewFrustum)}
                          ELSE nodeData.nodeBag))]_vars
C27_Witness ==
    /\ JustRestarted
    /\ loc.viewFrustumChanged
    /\ ~WasQualifying
    /\ cyc.mapAtEntry
    /\ ~nodeData.map
    /\ cyc.bagAtEntry # {}

\* C28: a packetDistributor call that is not a no-op reaches the test of line
\* 531 after its packing loop, however many iterations the loop made; it sends
\* one special packet exactly when the server then had one for the client and
\* the session was not shutting down, never more than one, and the packet
\* adds one to the total the call returns.
C28_OneSpecialWhenPending ==
    /\ [](CallDone =>
            /\ cyc.specialCheck # "none"
            /\ cyc.special <= 1
            /\ cyc.special = 1 <=>
                  (cyc.specialCheck = "pending" /\ ~cyc.downAtSpecial))
    /\ [][(pc = "sendSpecial" /\ pc' # "sendSpecial") =>
            loc'.truePacketsSent = loc.truePacketsSent + 1]_vars
    /\ [][(pc = "finish" /\ pc' # "finish") =>
            loc'.truePacketsSent = loc.truePacketsSent]_vars
C28_Witness ==
    /\ CallDone
    /\ cyc.special = 1
    /\ cyc.encodeCalls = 0
    /\ loc.packetsSentThisInterval > loc.maxPacketsPerInterval
    /\ loc.truePacketsSent > cyc.wireUnits

\* the space a packet has right after resetOctreePacket
FreshSpace == MAX_PACKET_SIZE - PacketHeaderSize
C30_StampedInEveryMode ==
    (JustRestarted /\ ~loc.viewFrustumChanged) =>
        nodeData.lastTimeBagEmpty = "thisCycle"
\* C30: a scene restart sets the time of the last empty bag to the current
\* time when no view change caused it and the client is not in delta mode;
\* a restart for a client in delta mode, and a restart caused by a view
\* change, leave it as it was.
C30_StampedOutsideDeltaMode ==
    [][(pc = "restart" /\ pc' # "restart" /\ needsRestart(World)) =>
         nodeData'.lastTimeBagEmpty =
             IF ~loc.viewFrustumChanged /\ ~nodeData.wantDelta
             THEN "thisCycle"
             ELSE nodeData.lastTimeBagEmpty]_vars
C30_Witness ==
    /\ JustRestarted
    /\ ~loc.viewFrustumChanged
    /\ nodeData.wantDelta
    /\ nodeData.lastTimeBagEmpty # "thisCycle"
    /\ cyc.bagAtEntry = {}

\* C31: every packetDistributor call returns: a call that is in its packing
\* loop gets back to process(), whatever the encoder reports.
C31_CallReturns ==
    (pc \in {"loop", "iterate"}) ~> (pc = "sleep")

\* the call has marked the view as sent (lines 548-554)
ViewMarkedSent == CallDone /\ cyc.lastKnownUpdates > 0

C33_EncodedIsAppended ==
    (pc = "loop" /\ loc.iteration.decided /\ loc.iteration.wrote
        /\ ~nodeData.isShuttingDown) =>
        wire.unsent = (IF nodeData.octreePacketWaiting
                       THEN Content(nodeData.octreePacket) ELSE <<>>)

\* lines 548-554 have run on an empty bag: the scene is complete
SceneComplete ==
    /\ nodeData.nodeBag = {}
    /\ nodeData.viewSent
    /\ nodeData.lastKnownViewFrustum = nodeData.currentViewFrustum

\* C34: with an unmodified tree, an unchanged view and LOD, a budget of at
\* least one packet and no shutdown, the scene eventually completes; a cycle
\* that works on the scene therefore completes it or ends, so that a later
\* cycle can go on with it.
C34_SceneCompletes ==
    (pc = "iterate" /\ loc.maxPacketsPerInterval >= 1 /\ ~nodeData.isShuttingDown)
        ~> (SceneComplete \/ pc = "sleeping")

\* C35: the element that packetDistributor hands to the encoder is part of
\* the tree at the time of the call: no writer has deleted it since it left
\* the bag.
C35_SubTreeIsLive ==
    pc = "unlock" => ~tree.deleted

\* C38: the send thread holds the read lock of the tree from line 418 to
\* line 449 of one iteration and nowhere else: not while it calls
\* handlePacketSend, sends the special packet or sleeps for pacing.
C38_LockAroundEncodeOnly ==
    /\ tree.readLocked <=> pc \in {"encode", "unlock"}
    /\ pc \in {"packAndSend", "specialPacket", "pacing"} => ~tree.readLocked
C38_Witness ==
    /\ pc = "packAndSend"
    /\ tree.access.line = 423
    /\ tree.access.locked
    /\ ~tree.readLocked
    /\ tree.writeLocked

\* C36: every segment that line 479 puts into a packet was encoded with the
\* color and compression settings that are the locked flags of that packet,
\* also when a query changes the wants of the client during the call.
C36_SegmentMatchesPacket ==
    (pc = "loop" /\ loc.iteration.decided /\ loc.iteration.appended) =>
        loc.iteration.foreign = {}

\* the call wrote a datagram that holds the octree packet
OctreeWritten ==
    \E i \in 1..Len(call.kinds) : call.kinds[i] \in {"octree", "stats+octree"}

\* C39 as stated: a handlePacketSend call made while no packet is waiting
\* writes no datagram with the octree packet and consumes no sequence
\* number, also when a statistics summary is ready.
C39_OnlyWaitingPacketsSent ==
    (Called /\ ~call.waiting) =>
        /\ ~OctreeWritten
        /\ call.seqAfter = call.seqBefore
\* C39: a handlePacketSend call that is neither cancelled by the shutdown
\* flag nor suppressed as a duplicate writes the octree packet, and advances
\* the sequence number by one, exactly when a packet is waiting or a
\* statistics summary is ready; with the summary ready and no packet waiting
\* the packet that goes out holds no segment.
C39_SentWhenWaitingOrStats ==
    Called =>
        LET due == /\ ~call.down
                   /\ ~call.suppressed
                   /\ (call.waiting \/ call.stats)
        IN /\ OctreeWritten <=> due
           /\ call.seqAfter = call.seqBefore + (IF due THEN 1 ELSE 0)
C39_Witness ==
    /\ Called
    /\ call.stats
    /\ ~call.waiting
    /\ ~call.suppressed
    /\ OctreeWritten
    /\ call.length = PacketHeaderSize
    /\ call.seqAfter = call.seqBefore + 1

\* C37: no datagram is written for a session once its shutdown flag is set,
\* whatever the interleaving with the thread that sets the flag: the flag
\* cannot turn true between the poll at the entry of handlePacketSend and
\* the writeDatagram that follows
C37_NoDatagramOnceSet ==
    (pc = "sendDone" /\ call.site = "send" /\ call.kinds # <<>>) => ~call.down

====
